---- MODULE Spec2Model ----
(***************************************************************************)
(* RabbitMQClient (src/src/lib/api.ts): the provisioning and teardown of   *)
(* tagged groups of queues, exchanges and bindings on one vhost of a       *)
(* broker, and the listing of the managed systems.                         *)
(*                                                                         *)
(* Text (names, tags, error messages) is a sequence of fragments: every    *)
(* character of a name or tag is one fragment, so that startsWith and      *)
(* includes are computed on the characters; the fixed literal parts of an  *)
(* error message are one fragment each, written in ASCII (the source has   *)
(* them in Chinese; none of them contains a digit).                        *)
(***************************************************************************)
EXTENDS Integers, Sequences, FiniteSets, TLC

VARIABLES
    brokerQueues,       \* the vhost's queues on the broker
    brokerExchanges,    \* the vhost's exchanges on the broker
    brokerBindings,     \* the vhost's bindings on the broker
    pc,                 \* position of the running operation
    systemId,           \* deleteSystem: the systemId argument
    sysQueues,          \* deleteSystem: queues (of the system)
    usedExchangeNames,  \* deleteSystem: usedExchangeNames, in insertion order
    deletedQueues,      \* deleteSystem: deletedQueues
    deletedExchanges,   \* deleteSystem: deletedExchanges
    existingSystems,    \* deleteSystem: existingSystems
    exchangesToCheck,   \* deleteSystem: exchangesToCheck
    currentExchanges,   \* deleteSystem: currentExchanges
    hasChanges,         \* deleteSystem: hasChanges
    remaining,          \* deleteSystem: remaining (of the running round)
    currentBindings,    \* deleteSystem: currentBindings (of the running round)
    idx,                \* index of the running for loop
    report,             \* deleteSystem: remainingExchanges of the returned report
    listed,             \* the last result of getManagedSystems
    config,             \* createSystem: the config argument
    metadata,           \* createSystem: metadata
    error,              \* message of the Error the operation threw, <<>> if none
    calls,              \* the gateway calls issued so far, in order
    rounds,             \* deleteSystem: rounds of the while loop started so far
    failures,           \* gateway calls that failed so far
    failedDeletes,      \* names whose deleteExchange call failed
    deletedWithBindings,\* names deleted while the broker still had a binding from them
    broker0,            \* the broker's state when the operation started
    userParams,         \* createSystem: the userParams argument
    resources,          \* the last result of getSystemResources
    username,           \* RabbitMQClient.username
    password,           \* RabbitMQClient.password
    vhostsCache,        \* RabbitMQClient.vhostsCache
    vhostsCachePromise, \* RabbitMQClient.vhostsCachePromise: the id of a fetch
    fetches,            \* the /vhosts requests issued so far, one record each
    results,            \* what each gateway call of the client returned, in order
    epoch,              \* setCredentials calls so far
    input,              \* the arguments of the function under evaluation
    output,             \* its result
    call2               \* createSystem: the locals of a second call of it

vars == <<brokerQueues, brokerExchanges, brokerBindings, pc, systemId, sysQueues,
          usedExchangeNames, deletedQueues, deletedExchanges, existingSystems,
          exchangesToCheck, currentExchanges, hasChanges, remaining,
          currentBindings, idx, report,
          listed, config, metadata, error, calls, rounds, failures, failedDeletes,
          deletedWithBindings, broker0, userParams, resources, username, password,
          vhostsCache, vhostsCachePromise, fetches, results, epoch, input, output,
          call2>>

-----------------------------------------------------------------------------
(* Bounds of the model.                                                    *)

\* bindings between named exchanges and queues/exchanges in an initial broker
MaxBindings == 3
\* gateway calls that fail in one run
MaxFailures == 1
\* rounds of deleteSystem's while loop the model follows
RoundCap == 6
\* characters of a template name, vhost or prefix a system id is derived from
MaxNameLen == 2
\* calls made on one client
MaxCalls == 4
\* names handed to forceDeleteExchanges
MaxNames == 3

-----------------------------------------------------------------------------
(* Text and values.                                                        *)

\* JavaScript's undefined: one fragment no text is made of
Undefined == <<"undefined">>
EmptyArgs == [k \in {} |-> <<>>]

Truthy(v) == v # Undefined /\ v # <<>>

StartsWith(s, p) == Len(s) >= Len(p) /\ SubSeq(s, 1, Len(p)) = p

Includes(s, p) ==
    \E i \in 1..(Len(s) - Len(p) + 1) : SubSeq(s, i, i + Len(p) - 1) = p

\* obj.arguments?.[key]
Arg(obj, key) ==
    IF key \in DOMAIN obj.arguments THEN obj.arguments[key] ELSE Undefined

KeySystemId == "x-manage-system-id"
KeyTemplate == "x-manage-template"
KeyVersion == "x-manage-version"
KeyCreatedAt == "x-manage-created-at"

NameDefault == <<>>
NameAmqTopic == <<"a", "m", "q", ".", "t", "o", "p", "i", "c">>
NameE1 == <<"E", "1">>
NameE2 == <<"E", "2">>
NameQ1 == <<"Q", "1">>
NameQ2 == <<"Q", "2">>
NameQ3 == <<"Q", "3">>
NameQ404 == <<"Q", "4", "0", "4">>
SysA == <<"A">>
SysB == <<"B">>
Tpl == <<"t">>

\* the order in which the broker lists resources: by name, in this order
NameOrder == <<NameDefault, NameAmqTopic, NameE1, NameE2,
               NameQ1, NameQ2, NameQ3, NameQ404>>
NameRank(n) == CHOOSE i \in 1..Len(NameOrder) : NameOrder[i] = n

TagArgs(tag) ==
    IF tag = Undefined THEN EmptyArgs
    ELSE (KeySystemId :> tag) @@ (KeyTemplate :> Tpl)

QueueRec(name, durable, args) ==
    [name |-> name, durable |-> durable, auto_delete |-> FALSE, arguments |-> args]

ExchangeRec(name, durable, args) ==
    [name |-> name, type |-> "topic", durable |-> durable, auto_delete |-> FALSE,
     arguments |-> args]

BindingRec(source, destination, destination_type, args) ==
    [source |-> source, destination |-> destination,
     destination_type |-> destination_type, arguments |-> args]

-----------------------------------------------------------------------------
(* The broker behind the gateway.                                          *)

RECURSIVE ListBy(_, _)
\* a set of resources as the list the broker returns, ordered by rank
ListBy(S, rank) ==
    IF S = {} THEN <<>>
    ELSE LET first == CHOOSE x \in S : \A y \in S : rank[x] <= rank[y]
         IN  <<first>> \o ListBy(S \ {first}, rank)

ResourceRank(r) == NameRank(r.name)
BindingRank(b) ==
    NameRank(b.source) * 100 + NameRank(b.destination) * 2
    + (IF b.destination_type = "exchange" THEN 1 ELSE 0)

\* GET /queues/{vhost}
getQueues(qs) == ListBy(qs, [q \in qs |-> ResourceRank(q)])
\* GET /exchanges/{vhost}
getExchanges(es) == ListBy(es, [e \in es |-> ResourceRank(e)])
\* GET /bindings/{vhost}
getBindings(bs) == ListBy(bs, [b \in bs |-> BindingRank(b)])

\* DELETE /queues/{vhost}/{name}: the queue goes, and the bindings to it
BrokerDeleteQueue(name) ==
    /\ brokerQueues' = {q \in brokerQueues : q.name # name}
    /\ brokerBindings' =
         {b \in brokerBindings :
            ~(b.destination_type = "queue" /\ b.destination = name)}
    /\ UNCHANGED brokerExchanges

\* DELETE /exchanges/{vhost}/{name}: the exchange goes, and the bindings from
\* it and to it
BrokerDeleteExchange(name) ==
    /\ brokerExchanges' = {e \in brokerExchanges : e.name # name}
    /\ brokerBindings' =
         {b \in brokerBindings :
            /\ b.source # name
            /\ ~(b.destination_type = "exchange" /\ b.destination = name)}
    /\ UNCHANGED brokerQueues

\* `API request failed: ${response.status} ${response.statusText}`
RequestFailedMsg(status) == <<"API request failed: ">> \o status

Call(op, name) == [op |-> op, name |-> name]

-----------------------------------------------------------------------------
(* getManagedSystems.                                                      *)

Digits == <<"0", "1", "2", "3", "4", "5", "6", "7", "8", "9">>
DigitRank(c) == CHOOSE i \in 1..Len(Digits) : Digits[i] = c

RECURSIVE TextLess(_, _)
\* a.localeCompare(b) < 0 on the texts of x-manage-created-at (digits)
TextLess(a, b) ==
    IF a = <<>> THEN b # <<>>
    ELSE IF b = <<>> THEN FALSE
    ELSE IF Head(a) = Head(b) THEN TextLess(Tail(a), Tail(b))
    ELSE DigitRank(Head(a)) < DigitRank(Head(b))

HasSystem(systemMap, sid) == \E i \in 1..Len(systemMap) : systemMap[i].systemId = sid

VersionUnknown == <<"u", "n", "k", "n", "o", "w", "n">>

\* a loop over the queues that registers a system without counting further
\* queues of it
CountQueueOnce(systemMap, queue) ==
    LET sid == Arg(queue, KeySystemId)
        template == Arg(queue, KeyTemplate)
        version == Arg(queue, KeyVersion)
        createdAt == Arg(queue, KeyCreatedAt)
        entry == [systemId |-> sid, template |-> template,
                  version |-> IF Truthy(version) THEN version ELSE VersionUnknown,
                  createdAt |-> IF Truthy(createdAt) THEN createdAt ELSE <<>>,
                  queueCount |-> 1, exchangeCount |-> 0]
    IN  IF Truthy(sid) /\ Truthy(template) /\ ~HasSystem(systemMap, sid)
        THEN Append(systemMap, entry)
        ELSE systemMap

\* one iteration of the loop over the queues
CountQueue(systemMap, queue) ==
    LET sid == Arg(queue, KeySystemId)
        template == Arg(queue, KeyTemplate)
        version == Arg(queue, KeyVersion)
        createdAt == Arg(queue, KeyCreatedAt)
        entry == [systemId |-> sid, template |-> template,
                  version |-> IF Truthy(version) THEN version ELSE VersionUnknown,
                  createdAt |-> IF Truthy(createdAt) THEN createdAt ELSE <<>>,
                  queueCount |-> 0, exchangeCount |-> 0]
        map1 == IF HasSystem(systemMap, sid) THEN systemMap
                ELSE Append(systemMap, entry)
    IN  IF Truthy(sid) /\ Truthy(template)
        THEN [i \in 1..Len(map1) |->
                IF map1[i].systemId = sid
                THEN [map1[i] EXCEPT !.queueCount = @ + 1] ELSE map1[i]]
        ELSE systemMap

\* a loop over the exchanges that also registers the systems it meets
CountExchangeRegistering(systemMap, exchange) ==
    LET sid == Arg(exchange, KeySystemId)
        entry == [systemId |-> sid, template |-> Arg(exchange, KeyTemplate),
                  version |-> VersionUnknown, createdAt |-> <<>>,
                  queueCount |-> 0, exchangeCount |-> 0]
        map1 == IF HasSystem(systemMap, sid) THEN systemMap
                ELSE Append(systemMap, entry)
    IN  IF Truthy(sid)
        THEN [i \in 1..Len(map1) |->
                IF map1[i].systemId = sid
                THEN [map1[i] EXCEPT !.exchangeCount = @ + 1] ELSE map1[i]]
        ELSE systemMap

\* one iteration of the loop over the exchanges
CountExchange(systemMap, exchange) ==
    LET sid == Arg(exchange, KeySystemId)
    IN  IF Truthy(sid) /\ HasSystem(systemMap, sid)
        THEN [i \in 1..Len(systemMap) |->
                IF systemMap[i].systemId = sid
                THEN [systemMap[i] EXCEPT !.exchangeCount = @ + 1]
                ELSE systemMap[i]]
        ELSE systemMap

RECURSIVE CountQueues(_, _)
CountQueues(systemMap, qlist) ==
    IF qlist = <<>> THEN systemMap
    ELSE CountQueues(CountQueue(systemMap, Head(qlist)), Tail(qlist))

RECURSIVE CountExchanges(_, _)
CountExchanges(systemMap, elist) ==
    IF elist = <<>> THEN systemMap
    ELSE CountExchanges(CountExchange(systemMap, Head(elist)), Tail(elist))

\* x goes before the first entry created before it: the stable sort by
\* (a, b) => b.createdAt.localeCompare(a.createdAt)
InsertByCreatedAt(sorted, x) ==
    LET later == {i \in 1..Len(sorted) : TextLess(sorted[i].createdAt, x.createdAt)}
        at == IF later = {} THEN Len(sorted) + 1
              ELSE CHOOSE i \in later : \A j \in later : i <= j
    IN  SubSeq(sorted, 1, at - 1) \o <<x>> \o SubSeq(sorted, at, Len(sorted))

RECURSIVE SortByCreatedAt(_, _)
SortByCreatedAt(sorted, list) ==
    IF list = <<>> THEN sorted
    ELSE SortByCreatedAt(InsertByCreatedAt(sorted, Head(list)), Tail(list))

getManagedSystems(qs, es) ==
    SortByCreatedAt(<<>>,
        CountExchanges(CountQueues(<<>>, getQueues(qs)), getExchanges(es)))

-----------------------------------------------------------------------------
(* deleteSystem: the pure parts.                                           *)

\* a filter that takes every tagged queue
SystemQueuesAnyTag(allQueues, sid) ==
    SelectSeq(allQueues, LAMBDA q : Truthy(Arg(q, KeySystemId)))

\* getSystemResources: the queues whose tag is the system id
SystemQueues(allQueues, sid) ==
    SelectSeq(allQueues, LAMBDA q : Arg(q, KeySystemId) = sid)

RECURSIVE UsedExchangeNamesOfDestination(_, _, _)
\* a collection of the bindings' destinations instead of their sources
UsedExchangeNamesOfDestination(used, blist, queues) ==
    IF blist = <<>> THEN used
    ELSE LET binding == Head(blist)
             hit == \E i \in 1..Len(queues) : queues[i].name = binding.destination
             seen == \E i \in 1..Len(used) : used[i] = binding.destination
         IN  UsedExchangeNamesOfDestination(
                 IF hit /\ ~seen THEN Append(used, binding.destination) ELSE used,
                 Tail(blist), queues)

RECURSIVE UsedExchangeNames(_, _, _)
\* the sources of the bindings whose destination names a queue of the system,
\* in the insertion order of the Set
UsedExchangeNames(used, blist, queues) ==
    IF blist = <<>> THEN used
    ELSE LET binding == Head(blist)
             hit == \E i \in 1..Len(queues) : queues[i].name = binding.destination
             seen == \E i \in 1..Len(used) : used[i] = binding.source
         IN  UsedExchangeNames(
                 IF hit /\ ~seen THEN Append(used, binding.source) ELSE used,
                 Tail(blist), queues)

\* a set of living systems that is always empty
ExistingSystemsNone(allQueues) ==
    {}

\* new Set(allQueues.map(q => q.arguments?.['x-manage-system-id']).filter(id => id))
ExistingSystems(allQueues) ==
    {Arg(allQueues[i], KeySystemId) : i \in 1..Len(allQueues)} \ {Undefined, <<>>}

RECURSIVE ExchangesToCheck(_, _)
ExchangesToCheck(used, allExchanges) ==
    IF used = <<>> THEN <<>>
    ELSE LET found == SelectSeq(allExchanges, LAMBDA e : e.name = Head(used))
         IN  (IF found = <<>> THEN <<>> ELSE <<Head(found)>>)
             \o ExchangesToCheck(Tail(used), allExchanges)

\* a check that knows the default exchange only
isSystemExchangeDefaultOnly(name) == name = <<>>

isSystemExchange(name) == name = <<>> \/ StartsWith(name, <<"a", "m", "q", ".">>)

\* a filter on the destination instead of the source
OutgoingBindingsByDestination(blist, name) ==
    SelectSeq(blist, LAMBDA b : b.destination = name)

\* currentBindings.filter(b => b.source === exchange.name)
OutgoingBindings(blist, name) == SelectSeq(blist, LAMBDA b : b.source = name)

\* a loop that runs while candidates remain
LoopContinuesWhileCandidates(changes, current) == Len(current) > 0

\* while (hasChanges && currentExchanges.length > 0)
LoopContinues(changes, current) == changes /\ Len(current) > 0

\* a classification that takes a living creator for a vanished one
ClassifyCreatorInverted(exchange, finalBindings, existing, sid) ==
    LET bindings == OutgoingBindings(finalBindings, exchange.name)
        createdBy == Arg(exchange, KeySystemId)
        isManaged == Truthy(createdBy)
    IN  [name |-> exchange.name,
         reason |-> IF isManaged /\ createdBy # sid /\ createdBy \in existing
                    THEN "orphaned_exchange" ELSE "has_bindings",
         bindingCount |-> Len(bindings),
         isManaged |-> isManaged,
         createdBy |-> createdBy]

\* the entry of remainingExchanges of one exchange left after the loop
Classify(exchange, finalBindings, existing, sid) ==
    LET bindings == OutgoingBindings(finalBindings, exchange.name)
        createdBy == Arg(exchange, KeySystemId)
        isManaged == Truthy(createdBy)
    IN  IF isManaged /\ Truthy(createdBy) /\ createdBy # sid
        THEN IF createdBy \notin existing
             THEN [name |-> exchange.name, reason |-> "orphaned_exchange",
                   bindingCount |-> Len(bindings), isManaged |-> TRUE,
                   createdBy |-> createdBy]
             ELSE [name |-> exchange.name, reason |-> "has_bindings",
                   bindingCount |-> Len(bindings), isManaged |-> TRUE,
                   createdBy |-> createdBy]
        ELSE [name |-> exchange.name, reason |-> "has_bindings",
              bindingCount |-> Len(bindings), isManaged |-> isManaged,
              createdBy |-> createdBy]

-----------------------------------------------------------------------------
(* deleteSystem: one action per gateway call or loop step.                 *)

NoConfig == [vhost |-> <<"/">>, exchanges |-> <<>>, queues |-> <<>>, bindings |-> <<>>]

\* no second createSystem call; issuedAt is the first call's position and
\* broker0 the broker's state when the second call is issued
NoSecond ==
    [pc |-> "idle", idx |-> 1, config |-> NoConfig, systemId |-> Undefined,
     metadata |-> EmptyArgs, error |-> <<>>, calls |-> <<>>,
     issuedAt |-> "idle", broker0 |-> [queues |-> {}, exchanges |-> {}, bindings |-> {}]]

\* the broker refuses to delete the default exchange and the amq.* exchanges
BrokerProtected(name) == name = <<>> \/ StartsWith(name, <<"a", "m", "q", ".">>)

brokerVars == <<brokerQueues, brokerExchanges, brokerBindings>>
clientVars == <<username, password, vhostsCache, vhostsCachePromise, fetches,
                results, epoch>>
functionVars == <<input, output>>

\* the client as constructed: no credentials, nothing cached, nothing requested
ClientConstructed ==
    /\ username = ""
    /\ password = ""
    /\ vhostsCache = [vhosts |-> <<>>, by |-> "", at |-> 0]
    /\ vhostsCachePromise = 0
    /\ fetches = <<>>
    /\ results = <<>>
    /\ epoch = 0

\* no function under evaluation
NoEvaluation ==
    /\ input = <<>>
    /\ output = <<>>

NoResources == [queues |-> <<>>, exchanges |-> <<>>]
deleteVars == <<systemId, sysQueues, usedExchangeNames, deletedQueues,
                deletedExchanges, existingSystems, exchangesToCheck,
                currentExchanges, hasChanges,
                remaining, currentBindings, report, rounds, failedDeletes,
                deletedWithBindings>>

\* deleteSystem(vhost, sid) is called
DS_Start(sid) ==
    /\ pc = "idle"
    /\ systemId' = sid
    /\ pc' = "ds_fetch"
    /\ UNCHANGED <<brokerVars, sysQueues, usedExchangeNames, deletedQueues,
                   deletedExchanges, existingSystems, exchangesToCheck, currentExchanges, hasChanges,
                   remaining, currentBindings, idx, report, listed, config, metadata, error,
                   calls, rounds, failures, failedDeletes, deletedWithBindings,
                   broker0>>
    /\ UNCHANGED <<userParams, resources, clientVars, functionVars, call2>>

\* steps 1 and 2: the system's queues, the bindings, usedExchangeNames
DS_Fetch ==
    /\ pc = "ds_fetch"
    /\ LET queues == SystemQueues(getQueues(brokerQueues), systemId)
           allBindingsBefore == getBindings(brokerBindings)
       IN  /\ sysQueues' = queues
           /\ usedExchangeNames' = UsedExchangeNames(<<>>, allBindingsBefore, queues)
    /\ idx' = 1
    /\ pc' = "ds_delq"
    /\ UNCHANGED <<brokerVars, systemId, deletedQueues, deletedExchanges,
                   existingSystems, exchangesToCheck, currentExchanges, hasChanges, remaining,
                   currentBindings, report, listed, config, metadata, error, calls, rounds,
                   failures, failedDeletes, deletedWithBindings, broker0>>
    /\ UNCHANGED <<userParams, resources, clientVars, functionVars, call2>>

\* step 3, one queue: deleteQueue, which may fail and then ends deleteSystem
DS_DeleteQueue ==
    /\ pc = "ds_delq"
    /\ idx <= Len(sysQueues)
    /\ LET name == sysQueues[idx].name
       IN  /\ calls' = Append(calls, Call("deleteQueue", name))
           /\ \/ /\ BrokerDeleteQueue(name)
                 /\ deletedQueues' = Append(deletedQueues, name)
                 /\ idx' = idx + 1
                 /\ UNCHANGED <<pc, error, failures>>
              \/ /\ failures < MaxFailures
                 /\ failures' = failures + 1
                 /\ error' = RequestFailedMsg(<<"5", "0", "0">>)
                 /\ pc' = "failed"
                 /\ UNCHANGED <<brokerVars, deletedQueues, idx>>
    /\ UNCHANGED <<systemId, sysQueues, usedExchangeNames, deletedExchanges,
                   existingSystems, exchangesToCheck, currentExchanges, hasChanges, remaining,
                   currentBindings, report, listed, config, metadata, rounds, failedDeletes,
                   deletedWithBindings, broker0>>
    /\ UNCHANGED <<userParams, resources, clientVars, functionVars, call2>>

\* steps 4 to 6: existingSystems, exchangesToCheck, the loop's variables
DS_Refetch ==
    /\ pc = "ds_delq"
    /\ idx > Len(sysQueues)
    /\ LET allQueues == getQueues(brokerQueues)
           allExchanges == getExchanges(brokerExchanges)
       IN  /\ existingSystems' = ExistingSystems(allQueues)
           /\ exchangesToCheck' = ExchangesToCheck(usedExchangeNames, allExchanges)
           /\ currentExchanges' = ExchangesToCheck(usedExchangeNames, allExchanges)
    /\ hasChanges' = TRUE
    /\ pc' = "ds_loop"
    /\ UNCHANGED <<brokerVars, systemId, sysQueues, usedExchangeNames,
                   deletedQueues, deletedExchanges, remaining, currentBindings, idx,
                   report, listed, config, metadata, error, calls, rounds, failures,
                   failedDeletes, deletedWithBindings, broker0>>
    /\ UNCHANGED <<userParams, resources, clientVars, functionVars, call2>>

\* step 7, the head of a round: the bindings are fetched once
DS_RoundStart ==
    /\ pc = "ds_loop"
    /\ LoopContinues(hasChanges, currentExchanges)
    /\ rounds < RoundCap
    /\ hasChanges' = FALSE
    /\ remaining' = <<>>
    /\ currentBindings' = getBindings(brokerBindings)
    /\ idx' = 1
    /\ rounds' = rounds + 1
    /\ pc' = "ds_round"
    /\ UNCHANGED <<brokerVars, systemId, sysQueues, usedExchangeNames,
                   deletedQueues, deletedExchanges, existingSystems, exchangesToCheck,
                   currentExchanges, report, listed, config, metadata, error, calls, failures,
                   failedDeletes, deletedWithBindings, broker0>>
    /\ UNCHANGED <<userParams, resources, clientVars, functionVars, call2>>

\* a catch block that forgets the exchange whose deletion failed
DropFailedExchange(exchange) ==
    remaining' = remaining

\* catch (error) { console.warn(...); remaining.push(exchange) }
KeepFailedExchange(exchange) ==
    remaining' = Append(remaining, exchange)

\* step 7, one exchange of the round
DS_Exchange ==
    /\ pc = "ds_round"
    /\ idx <= Len(currentExchanges)
    /\ idx' = idx + 1
    /\ LET exchange == currentExchanges[idx]
           bindings == OutgoingBindings(currentBindings, exchange.name)
       IN  IF isSystemExchange(exchange.name)
           THEN UNCHANGED <<brokerVars, deletedExchanges, hasChanges, remaining,
                            calls, failures, failedDeletes, deletedWithBindings>>
           ELSE IF Len(bindings) = 0
           THEN /\ calls' = Append(calls, Call("deleteExchange", exchange.name))
                /\ \/ /\ ~BrokerProtected(exchange.name)
                      /\ BrokerDeleteExchange(exchange.name)
                      /\ deletedExchanges' = Append(deletedExchanges, exchange.name)
                      /\ hasChanges' = TRUE
                      /\ deletedWithBindings' =
                           IF \E b \in brokerBindings : b.source = exchange.name
                           THEN deletedWithBindings \cup {exchange.name}
                           ELSE deletedWithBindings
                      /\ UNCHANGED <<remaining, failures, failedDeletes>>
                   \/ /\ failures < MaxFailures \/ BrokerProtected(exchange.name)
                      /\ failures' = IF BrokerProtected(exchange.name) THEN failures
                                     ELSE failures + 1
                      /\ failedDeletes' = failedDeletes \cup {exchange.name}
                      /\ KeepFailedExchange(exchange)
                      /\ UNCHANGED <<brokerVars, deletedExchanges, hasChanges,
                                     deletedWithBindings>>
           ELSE /\ remaining' = Append(remaining, exchange)
                /\ UNCHANGED <<brokerVars, deletedExchanges, hasChanges, calls,
                               failures, failedDeletes, deletedWithBindings>>
    /\ UNCHANGED <<pc, systemId, sysQueues, usedExchangeNames, deletedQueues,
                   existingSystems, exchangesToCheck, currentExchanges, currentBindings, report,
                   listed, config, metadata, error, rounds, broker0>>
    /\ UNCHANGED <<userParams, resources, clientVars, functionVars, call2>>

\* step 7, the end of a round
DS_RoundEnd ==
    /\ pc = "ds_round"
    /\ idx > Len(currentExchanges)
    /\ currentExchanges' = remaining
    /\ pc' = "ds_loop"
    /\ UNCHANGED <<brokerVars, systemId, sysQueues, usedExchangeNames,
                   deletedQueues, deletedExchanges, existingSystems, exchangesToCheck, hasChanges,
                   remaining, currentBindings, idx, report, listed, config, metadata, error,
                   calls, rounds, failures, failedDeletes, deletedWithBindings,
                   broker0>>
    /\ UNCHANGED <<userParams, resources, clientVars, functionVars, call2>>

\* steps 8 to 10: the loop has ended, the report is built and returned
DS_Report ==
    /\ pc = "ds_loop"
    /\ ~LoopContinues(hasChanges, currentExchanges)
    /\ LET finalBindings == getBindings(brokerBindings)
       IN  report' = [i \in 1..Len(currentExchanges) |->
                        Classify(currentExchanges[i], finalBindings,
                                 existingSystems, systemId)]
    /\ pc' = "done"
    /\ UNCHANGED <<brokerVars, systemId, sysQueues, usedExchangeNames,
                   deletedQueues, deletedExchanges, existingSystems, exchangesToCheck,
                   currentExchanges, hasChanges, remaining, currentBindings, idx,
                   listed, config, metadata, error, calls, rounds, failures, failedDeletes,
                   deletedWithBindings, broker0>>
    /\ UNCHANGED <<userParams, resources, clientVars, functionVars, call2>>

\* one of deleteSystem's list requests fails: the error ends deleteSystem
DS_ReadFails ==
    /\ \/ pc \in {"ds_fetch", "ds_loop"}
       \/ pc = "ds_delq" /\ idx > Len(sysQueues)
    /\ failures < MaxFailures
    /\ failures' = failures + 1
    /\ error' = RequestFailedMsg(<<"5", "0", "0">>)
    /\ pc' = "failed"
    /\ UNCHANGED <<brokerVars, deleteVars, idx, listed, config, metadata, calls, broker0>>
    /\ UNCHANGED <<userParams, resources, clientVars, functionVars, call2>>

\* getManagedSystems(vhost) is called, before or after the operation
ListManagedSystems ==
    /\ pc \in {"idle", "done"}
    /\ listed' = getManagedSystems(brokerQueues, brokerExchanges)
    /\ pc' = IF pc = "idle" THEN "listed" ELSE "done_listed"
    /\ UNCHANGED <<brokerVars, deleteVars, idx, config, metadata, error, calls, failures,
                   broker0>>
    /\ UNCHANGED <<userParams, resources, clientVars, functionVars, call2>>

-----------------------------------------------------------------------------
(* The teardown specification: a broker with up to three queues, the two   *)
(* protected exchanges, two named exchanges and up to MaxBindings bindings *)
(* from them, on which one deleteSystem or one getManagedSystems runs.     *)

SystemIds == {SysA, SysB}
Tags == {Undefined, SysA, SysB}

TeardownQueueSets ==
    {{QueueRec(NameQ1, TRUE, TagArgs(SysA))} \cup q2 \cup q3 :
        q2 \in {{}} \cup {{QueueRec(NameQ2, TRUE, TagArgs(t))} : t \in {SysA, SysB}},
        q3 \in {{}} \cup {{QueueRec(NameQ3, TRUE, TagArgs(t))} : t \in {Undefined, SysB}}}

TeardownExchangeSets ==
    {{ExchangeRec(NameDefault, TRUE, EmptyArgs),
      ExchangeRec(NameAmqTopic, TRUE, EmptyArgs),
      ExchangeRec(NameE1, TRUE, TagArgs(t1)),
      ExchangeRec(NameE2, TRUE, TagArgs(t2))} : t1 \in Tags, t2 \in Tags}

\* every queue is bound to the default exchange by the broker itself
DefaultBindings(qs) ==
    {BindingRec(NameDefault, q.name, "queue", EmptyArgs) : q \in qs}

NamedBindings ==
    {BindingRec(NameAmqTopic, NameQ1, "queue", EmptyArgs)}
    \cup {BindingRec(NameE1, d, "queue", EmptyArgs) : d \in {NameQ1, NameQ2}}
    \cup {BindingRec(NameE1, d, "exchange", EmptyArgs) : d \in {NameE1, NameE2}}
    \cup {BindingRec(NameE2, d, "queue", EmptyArgs) : d \in {NameQ1, NameQ2, NameQ3}}
    \cup {BindingRec(NameE2, NameE1, "exchange", EmptyArgs)}

\* the bindings a broker with the queues qs can hold
TeardownBindingSets(qs) ==
    {DefaultBindings(qs) \cup bs :
        bs \in {s \in SUBSET NamedBindings :
                  /\ Cardinality(s) <= MaxBindings
                  /\ \A b \in s : b.destination_type = "queue"
                        => \E q \in qs : q.name = b.destination}}

InitTeardown ==
    /\ brokerQueues \in TeardownQueueSets
    /\ brokerExchanges \in TeardownExchangeSets
    /\ brokerBindings \in TeardownBindingSets(brokerQueues)
    /\ pc = "idle"
    /\ systemId = Undefined
    /\ sysQueues = <<>>
    /\ usedExchangeNames = <<>>
    /\ deletedQueues = <<>>
    /\ deletedExchanges = <<>>
    /\ existingSystems = {}
    /\ exchangesToCheck = <<>>
    /\ currentExchanges = <<>>
    /\ hasChanges = FALSE
    /\ remaining = <<>>
    /\ currentBindings = <<>>
    /\ idx = 1
    /\ report = <<>>
    /\ listed = <<>>
    /\ config = NoConfig
    /\ metadata = EmptyArgs
    /\ error = <<>>
    /\ calls = <<>>
    /\ rounds = 0
    /\ failures = 0
    /\ failedDeletes = {}
    /\ deletedWithBindings = {}
    /\ broker0 = [queues |-> brokerQueues, exchanges |-> brokerExchanges,
                  bindings |-> brokerBindings]
    /\ userParams = EmptyArgs
    /\ call2 = NoSecond
    /\ resources = NoResources
    /\ ClientConstructed
    /\ NoEvaluation

NextTeardown ==
    \/ \E sid \in SystemIds : DS_Start(sid)
    \/ DS_Fetch
    \/ DS_DeleteQueue
    \/ DS_Refetch
    \/ DS_RoundStart
    \/ DS_Exchange
    \/ DS_RoundEnd
    \/ DS_Report
    \/ DS_ReadFails
    \/ ListManagedSystems

SpecTeardown == InitTeardown /\ [][NextTeardown]_vars

-----------------------------------------------------------------------------
(* Properties of deleteSystem and getManagedSystems.                       *)

Range(seq) == {seq[i] : i \in 1..Len(seq)}
ReportNames == {report[i].name : i \in 1..Len(report)}
Returned == pc \in {"done", "done_listed"}
Tagged(S, sid) == {r \in S : Arg(r, KeySystemId) = sid}
NamesOf(S) == {r.name : r \in S}
Outgoing0(name) == {b \in broker0.bindings : b.source = name}
OnBroker(S, name) == \E r \in S : r.name = name

\* The broker the teardown scenario starts from: Q1 and Q2 tagged sysA, Q3
\* not tagged sysA, E1 tagged sysA and bound only to Q1, E2 untagged and bound
\* to Q2 and Q3.
TeardownScenario ==
    /\ NamesOf(Tagged(broker0.queues, SysA)) = {NameQ1, NameQ2}
    /\ OnBroker(broker0.queues, NameQ3)
    /\ ExchangeRec(NameE1, TRUE, TagArgs(SysA)) \in broker0.exchanges
    /\ ExchangeRec(NameE2, TRUE, EmptyArgs) \in broker0.exchanges
    /\ Outgoing0(NameE1) = {BindingRec(NameE1, NameQ1, "queue", EmptyArgs)}
    /\ Outgoing0(NameE2) = {BindingRec(NameE2, NameQ2, "queue", EmptyArgs),
                            BindingRec(NameE2, NameQ3, "queue", EmptyArgs)}

\* C1: from the teardown scenario, a deleteSystem(vhost, sysA) none of whose
\* gateway calls fails returns deletedQueues = {Q1, Q2}, deletedExchanges =
\* {E1} and exactly one remaining entry, E2 with reason has_bindings and
\* bindingCount >= 1; Q3 and E2 are still on the broker.
C1_TeardownScenario ==
    (TeardownScenario /\ systemId = SysA /\ Returned /\ failures = 0) =>
        /\ Range(deletedQueues) = {NameQ1, NameQ2}
        /\ Len(deletedQueues) = 2
        /\ deletedExchanges = <<NameE1>>
        /\ Len(report) = 1
        /\ report[1].name = NameE2
        /\ report[1].reason = "has_bindings"
        /\ report[1].bindingCount >= 1
        /\ OnBroker(brokerQueues, NameQ3)
        /\ OnBroker(brokerExchanges, NameE2)
        /\ ~OnBroker(brokerExchanges, NameE1)

C1_Witness ==
    TeardownScenario /\ systemId = SysA /\ pc = "done" /\ failures = 0

\* The orphan scenario for the exchange x: x is tagged sysB, no queue is
\* tagged sysB, and x is bound to the queue Q1 of sysA.
OrphanScenario(x) ==
    /\ ExchangeRec(x, TRUE, TagArgs(SysB)) \in broker0.exchanges
    /\ Tagged(broker0.queues, SysB) = {}
    /\ BindingRec(x, NameQ1, "queue", EmptyArgs) \in broker0.bindings
    /\ systemId = SysA

ReportedOrphan(x) ==
    \E i \in 1..Len(report) :
        /\ report[i].name = x
        /\ report[i].reason = "orphaned_exchange"
        /\ report[i].createdBy = SysB

\* the bindings of x that lead to a queue of the deleted system
ToSystemQueues0(x) ==
    {b \in Outgoing0(x) :
        /\ b.destination_type = "queue"
        /\ b.destination \in NamesOf(Tagged(broker0.queues, systemId))}

\* the bindings of x that lead to a queue deleteSystem does not delete
ToOtherQueues0(x) ==
    {b \in Outgoing0(x) :
        /\ b.destination_type = "queue"
        /\ b.destination \notin NamesOf(Tagged(broker0.queues, systemId))}

\* C2 as stated: in the orphan scenario deleteSystem(vhost, sysA) leaves the
\* exchange on the broker, reported orphaned_exchange with createdBy sysB,
\* and not in deletedExchanges.
C2_Original ==
    \A x \in {NameE1, NameE2} :
        (OrphanScenario(x) /\ Returned /\ failures = 0) =>
            /\ OnBroker(brokerExchanges, x)
            /\ ReportedOrphan(x)
            /\ x \notin Range(deletedExchanges)

\* C2 amended: in the orphan scenario the exchange is either deleted or
\* reported orphaned_exchange with createdBy sysB, never has_bindings: it is
\* deleted (and listed in deletedExchanges) when all its bindings led to
\* queues of sysA and no gateway call failed, and it stays on the broker,
\* reported as orphaned, when it is also bound to a queue outside sysA.
C2_OrphanScenario ==
    \A x \in {NameE1, NameE2} :
        (OrphanScenario(x) /\ Returned) =>
            /\ (x \in Range(deletedExchanges)) # (x \in ReportNames)
            /\ x \in ReportNames =>
                  ReportedOrphan(x) /\ OnBroker(brokerExchanges, x)
            /\ x \in Range(deletedExchanges) => ~OnBroker(brokerExchanges, x)
            /\ ToOtherQueues0(x) # {} => x \in ReportNames
            /\ (Outgoing0(x) = ToSystemQueues0(x) /\ failures = 0) =>
                  x \in Range(deletedExchanges)

C2_Witness ==
    /\ OrphanScenario(NameE2)
    /\ pc = "done"
    /\ failures = 0
    /\ ReportedOrphan(NameE2)
    /\ ToOtherQueues0(NameE2) # {}

\* C3: deleteSystem never calls deleteExchange on the default exchange or on
\* an amq.* exchange, and none of them is ever in deletedExchanges or in
\* remainingExchanges, bound to the system's queues or not.
C3_ProtectedExchanges ==
    /\ \A i \in 1..Len(calls) :
          calls[i].op = "deleteExchange" => ~BrokerProtected(calls[i].name)
    /\ \A n \in Range(deletedExchanges) \cup ReportNames : ~BrokerProtected(n)
    /\ \A e \in broker0.exchanges :
          BrokerProtected(e.name) => e \in brokerExchanges

\* a run in which amq.topic and the default exchange were candidates, and
\* amq.topic had lost its last binding when the loop ran
C3_Witness ==
    /\ pc = "done"
    /\ NameAmqTopic \in Range(usedExchangeNames)
    /\ NameDefault \in Range(usedExchangeNames)
    /\ ~\E b \in brokerBindings : b.source = NameAmqTopic
    /\ deletedExchanges # <<>>

\* C4: deleteSystem(vhost, S) deletes the queues tagged S when it starts and
\* no other queue; deletedQueues lists exactly the deleted names; when it
\* returns no queue tagged S is left and getManagedSystems does not list S.
C4_QueuesOfSystem ==
    systemId # Undefined =>
        /\ brokerQueues \subseteq broker0.queues
        /\ broker0.queues \ brokerQueues \subseteq Tagged(broker0.queues, systemId)
        /\ NamesOf(broker0.queues \ brokerQueues) = Range(deletedQueues)
        /\ Cardinality(Range(deletedQueues)) = Len(deletedQueues)
        /\ Returned =>
              /\ Tagged(brokerQueues, systemId) = {}
              /\ Range(deletedQueues) = NamesOf(Tagged(broker0.queues, systemId))
        /\ pc = "done_listed" =>
              \A i \in 1..Len(listed) : listed[i].systemId # systemId

C4_Witness ==
    /\ pc = "done_listed"
    /\ Len(deletedQueues) = 2
    /\ \E q \in brokerQueues : Arg(q, KeySystemId) # systemId

\* C5: an exchange is deleted only when the broker holds no binding with it
\* as source at the moment of the deleteExchange call; an exchange bound to a
\* queue that is not of the deleted system is never deleted.
C5_DeletedOnlyUnbound ==
    /\ deletedWithBindings = {}
    /\ \A x \in Range(deletedExchanges) : ToOtherQueues0(x) = {}

\* an exchange was deleted in a round whose binding list is stale by now
C5_Witness ==
    /\ pc = "ds_round"
    /\ deletedExchanges # <<>>
    /\ currentBindings # getBindings(brokerBindings)
    /\ idx <= Len(currentExchanges)

\* C6: the loop starts at most (number of candidates + 1) rounds, whatever
\* the bindings among the candidates and whichever deleteExchange calls fail
\* (every round but the last deletes a candidate, and a round is one pass
\* over the finite list of candidates); when the loop has ended no candidate
\* remains or the last round deleted nothing.
C6_LoopTerminates ==
    /\ rounds <= Len(exchangesToCheck) + 1
    /\ rounds >= 1 => rounds <= Len(deletedExchanges) + 1
    /\ pc = "ds_round" => idx <= Len(currentExchanges) + 1
    /\ Returned => (Len(currentExchanges) = 0 \/ ~hasChanges)

\* the loop ended after two rounds over a chain of exchanges, a
\* deleteExchange call having failed
C6_Witness ==
    /\ pc = "done"
    /\ rounds = 2
    /\ failedDeletes # {}
    /\ Len(currentExchanges) > 0
    /\ Len(deletedExchanges) = 1
    /\ BindingRec(NameE1, NameE2, "exchange", EmptyArgs) \in broker0.bindings

ListedDone == pc \in {"listed", "done_listed"}
ListedIds == {listed[i].systemId : i \in 1..Len(listed)}
ExchangeTags(es) == {Arg(e, KeySystemId) : e \in es} \ {Undefined}

RECURSIVE SumExchangeCount(_)
SumExchangeCount(list) ==
    IF list = <<>> THEN 0 ELSE Head(list).exchangeCount + SumExchangeCount(Tail(list))

\* C7: every entry of getManagedSystems has queueCount >= 1; an id carried by
\* exchanges only is not listed, and its exchanges are counted in no entry.
C7_NoSystemWithoutQueues ==
    ListedDone =>
        /\ \A i \in 1..Len(listed) : listed[i].queueCount >= 1
        /\ \A sid \in ExchangeTags(brokerExchanges) :
              Tagged(brokerQueues, sid) = {} => sid \notin ListedIds
        /\ SumExchangeCount(listed) =
              Cardinality({e \in brokerExchanges :
                              /\ Arg(e, KeySystemId) # Undefined
                              /\ Tagged(brokerQueues, Arg(e, KeySystemId)) # {}})

C7_Witness ==
    /\ ListedDone
    /\ Len(listed) >= 1
    /\ \E sid \in ExchangeTags(brokerExchanges) : Tagged(brokerQueues, sid) = {}
    /\ SumExchangeCount(listed) >= 1

-----------------------------------------------------------------------------
(* createSystem: the pure parts.                                           *)

\* {...a, ...b} with the precedence the wrong way round: a's value wins
MergeFirstWins(a, b) ==
    [k \in DOMAIN a \cup DOMAIN b |-> IF k \in DOMAIN a THEN a[k] ELSE b[k]]

\* {...a, ...b}: the keys of both, b's value where both have the key
Merge(a, b) ==
    [k \in DOMAIN a \cup DOMAIN b |-> IF k \in DOMAIN b THEN b[k] ELSE a[k]]

Unnamed == <<"u", "n", "n", "a", "m", "e", "d">>

generateSystemId(params) ==
    LET queue_prefix == IF "queue_prefix" \in DOMAIN params
                        THEN params["queue_prefix"] ELSE Undefined
        prefix == IF Truthy(queue_prefix) THEN queue_prefix ELSE Unnamed
    IN  params["templateName"] \o <<"@">> \o params["vhost"] \o <<":">> \o prefix

\* new Date().toISOString() of the running call; the resources that exist
\* before it were created at CreatedBefore
Now == <<"2">>
CreatedBefore == <<"1">>

generateManageMetadata(sid, templateName, templateVersion) ==
    (KeySystemId :> sid) @@ (KeyTemplate :> templateName)
    @@ (KeyVersion :> templateVersion) @@ (KeyCreatedAt :> Now)

\* `${value}` of a boolean
BoolText(b) == IF b THEN <<"t", "r", "u", "e">> ELSE <<"f", "a", "l", "s", "e">>

\* JSON.stringify of a text or of undefined, inside a template literal
JsonText(v) == IF v = Undefined THEN Undefined ELSE <<"\"">> \o v \o <<"\"">>

RECURSIVE JoinLines(_)
\* errors.join('\n')
JoinLines(errors) ==
    IF errors = <<>> THEN <<>>
    ELSE IF Len(errors) = 1 THEN Head(errors)
    ELSE Head(errors) \o <<"\n">> \o JoinLines(Tail(errors))

\* the keys of validateIfExists, in the order Object.entries yields them
ValidateKeys == <<"durable", "auto_delete", "arguments">>
ArgumentKeys == <<KeySystemId, KeyTemplate, KeyVersion, KeyCreatedAt>>

\* the errors of the arguments key: one per argument that differs
ArgumentErrors(actual, expectedArgs) ==
    LET keys == SelectSeq(ArgumentKeys, LAMBDA k : k \in DOMAIN expectedArgs)
        bad == SelectSeq(keys, LAMBDA k : Arg(actual, k) # expectedArgs[k])
    IN  [i \in 1..Len(bad) |->
            <<bad[i], ": expected ">> \o JsonText(expectedArgs[bad[i]])
            \o <<", actual ">> \o JsonText(Arg(actual, bad[i]))]

\* the errors of one top-level key
KeyErrors(actual, expected, key) ==
    IF key \notin DOMAIN expected THEN <<>>
    ELSE IF key = "arguments" THEN ArgumentErrors(actual, expected[key])
    ELSE IF actual[key] # expected[key]
         THEN << <<key, ": expected ">> \o BoolText(expected[key])
                 \o <<", actual ">> \o BoolText(actual[key]) >>
         ELSE <<>>

\* validateResource: the message of the Error it throws, <<>> when it returns
validateResource(actual, expected, resourceType, resourceName) ==
    LET errors == KeyErrors(actual, expected, ValidateKeys[1])
                  \o KeyErrors(actual, expected, ValidateKeys[2])
                  \o KeyErrors(actual, expected, ValidateKeys[3])
    IN  IF Len(errors) > 0
        THEN <<resourceType, " \"">> \o resourceName
             \o <<"\" exists but does not meet the requirements:\n">>
             \o JoinLines(errors)
        ELSE <<>>

\* `${type} "${name}" already exists, cannot create`
ExistsMsg(resourceType, name) ==
    <<resourceType, " \"">> \o name \o <<"\" already exists, cannot create">>

NotFoundMsg == RequestFailedMsg(<<"4", "0", "4", " ", "Not Found">>)

\* what the body of `if (existing)` throws for a resource that exists: the
\* message, or <<>> when the resource is reused
ExistingOutcome(existing, spec, resourceType) ==
    IF spec.reuseIfExists /\ Len(spec.validateIfExists) > 0
    THEN validateResource(existing, spec.validateIfExists[1], resourceType, spec.name)
    ELSE IF spec.reuseIfExists THEN <<>>
    ELSE ExistsMsg(resourceType, spec.name)

\* the catch of the queue lookup: error.message.includes('404')
IsNotFound(message) == Includes(message, <<"4", "0", "4">>)

\* where createSystem goes on after the exchange spec i (0: from the start)
\* in an order that has the bindings before the queues
AfterExchangeBindingsFirst(cfg, i) ==
    IF i < Len(cfg.exchanges) THEN [pc |-> "cs_ex_get", idx |-> i + 1]
    ELSE IF Len(cfg.bindings) > 0 THEN [pc |-> "cs_bind", idx |-> 1]
    ELSE [pc |-> "done", idx |-> 1]

\* where createSystem goes on after the exchange spec i (0: from the start)
AfterExchange(cfg, i) ==
    IF i < Len(cfg.exchanges) THEN [pc |-> "cs_ex_get", idx |-> i + 1]
    ELSE IF Len(cfg.queues) > 0 THEN [pc |-> "cs_q_get", idx |-> 1]
    ELSE IF Len(cfg.bindings) > 0 THEN [pc |-> "cs_bind", idx |-> 1]
    ELSE [pc |-> "done", idx |-> 1]

\* where createSystem goes on after the queue spec i
AfterQueue(cfg, i) ==
    IF i < Len(cfg.queues) THEN [pc |-> "cs_q_get", idx |-> i + 1]
    ELSE IF Len(cfg.bindings) > 0 THEN [pc |-> "cs_bind", idx |-> 1]
    ELSE [pc |-> "done", idx |-> 1]

\* where createSystem goes on after the binding spec i
AfterBinding(cfg, i) ==
    IF i < Len(cfg.bindings) THEN [pc |-> "cs_bind", idx |-> i + 1]
    ELSE [pc |-> "done", idx |-> 1]

-----------------------------------------------------------------------------
(* createSystem: one action per gateway call.                              *)

deleteLocals == <<sysQueues, usedExchangeNames, deletedQueues, deletedExchanges,
                  existingSystems, exchangesToCheck, currentExchanges, hasChanges,
                  remaining, currentBindings, report, rounds, failedDeletes,
                  deletedWithBindings>>

\* PUT of a resource: it is created; declared again as it is, nothing
\* changes; declared again with other properties, the broker answers 400
PutAccepted(S, rec) == \A r \in S : r.name = rec.name => r = rec

\* POST of a binding: the broker answers 404 unless the source exchange and
\* the destination exist
BindingAccepted(binding) ==
    /\ OnBroker(brokerExchanges, binding.source)
    /\ IF binding.destination_type = "exchange"
       THEN OnBroker(brokerExchanges, binding.destination)
       ELSE OnBroker(brokerQueues, binding.destination)

\* the call ends with the Error of the message
Throw(message) ==
    /\ error' = message
    /\ pc' = "failed"
    /\ UNCHANGED idx

\* the call goes on at the position next
Goto(next) ==
    /\ pc' = next.pc
    /\ idx' = next.idx
    /\ UNCHANGED error

\* the request fails with a status other than 404
GatewayFails ==
    /\ failures < MaxFailures
    /\ failures' = failures + 1
    /\ Throw(RequestFailedMsg(<<"5", "0", "0">>))

\* createSystem(cfg, templateName, templateVersion, userParams) is called
CS_Start(cfg, templateName, templateVersion, params) ==
    /\ pc = "idle"
    /\ config' = cfg
    /\ LET sid == generateSystemId(
                      Merge(("templateName" :> templateName) @@ ("vhost" :> cfg.vhost),
                            params))
       IN  /\ systemId' = sid
           /\ metadata' = generateManageMetadata(sid, templateName, templateVersion)
    /\ Goto(AfterExchange(cfg, 0))
    /\ UNCHANGED <<brokerVars, deleteLocals, listed, calls, failures, broker0>>
    /\ userParams' = params
    /\ UNCHANGED <<resources, clientVars, functionVars, call2>>

\* the lookup of the exchange spec idx and what follows it up to the next
\* gateway call
CS_GetExchange ==
    /\ pc = "cs_ex_get"
    /\ LET exchange == config.exchanges[idx]
           found == {e \in brokerExchanges : e.name = exchange.name}
       IN  /\ calls' = Append(calls, Call("getExchange", exchange.name))
           /\ \/ GatewayFails
              \/ /\ found = {}
                 /\ Goto([pc |-> "cs_ex_create", idx |-> idx])
                 /\ UNCHANGED failures
              \/ /\ \E existing \in found :
                       LET thrown == ExistingOutcome(existing, exchange, "exchange")
                       IN  IF thrown # <<>> THEN Throw(thrown)
                           ELSE Goto(AfterExchange(config, idx))
                 /\ UNCHANGED failures
    /\ UNCHANGED <<brokerVars, deleteLocals, systemId, listed, config, metadata,
                   broker0>>
    /\ UNCHANGED <<userParams, resources, clientVars, functionVars, call2>>

\* createExchange of the exchange spec idx, with the metadata merged in
CS_CreateExchange ==
    /\ pc = "cs_ex_create"
    /\ LET exchange == config.exchanges[idx]
           rec == ExchangeRec(exchange.name, exchange.durable,
                              Merge(exchange.arguments, metadata))
       IN  /\ calls' = Append(calls, Call("createExchange", exchange.name))
           /\ \/ /\ GatewayFails
                 /\ UNCHANGED brokerVars
              \/ /\ PutAccepted(brokerExchanges, rec)
                 /\ brokerExchanges' = brokerExchanges \cup {rec}
                 /\ Goto(AfterExchange(config, idx))
                 /\ UNCHANGED <<brokerQueues, brokerBindings, failures>>
              \/ /\ ~PutAccepted(brokerExchanges, rec)
                 /\ Throw(RequestFailedMsg(<<"4", "0", "0">>))
                 /\ UNCHANGED <<brokerVars, failures>>
    /\ UNCHANGED <<deleteLocals, systemId, listed, config, metadata, broker0>>
    /\ UNCHANGED <<userParams, resources, clientVars, functionVars, call2>>

\* the lookup of the queue spec idx inside the try, and the catch
CS_GetQueue ==
    /\ pc = "cs_q_get"
    /\ LET queue == config.queues[idx]
           found == {q \in brokerQueues : q.name = queue.name}
       IN  /\ calls' = Append(calls, Call("getQueue", queue.name))
           /\ \/ /\ failures < MaxFailures
                 /\ failures' = failures + 1
                 /\ LET thrown == RequestFailedMsg(<<"5", "0", "0">>)
                    IN  IF IsNotFound(thrown)
                        THEN Goto([pc |-> "cs_q_create", idx |-> idx])
                        ELSE Throw(thrown)
              \/ /\ found = {}
                 /\ IF IsNotFound(NotFoundMsg)
                    THEN Goto([pc |-> "cs_q_create", idx |-> idx])
                    ELSE Throw(NotFoundMsg)
                 /\ UNCHANGED failures
              \/ /\ \E existing \in found :
                       LET thrown == ExistingOutcome(existing, queue, "queue")
                       IN  IF thrown = <<>> THEN Goto(AfterQueue(config, idx))
                           ELSE IF IsNotFound(thrown)
                           THEN Goto([pc |-> "cs_q_create", idx |-> idx])
                           ELSE Throw(thrown)
                 /\ UNCHANGED failures
    /\ UNCHANGED <<brokerVars, deleteLocals, systemId, listed, config, metadata,
                   broker0>>
    /\ UNCHANGED <<userParams, resources, clientVars, functionVars, call2>>

\* createQueue of the queue spec idx, with the metadata merged in
CS_CreateQueue ==
    /\ pc = "cs_q_create"
    /\ LET queue == config.queues[idx]
           rec == QueueRec(queue.name, queue.durable,
                           Merge(queue.arguments, metadata))
       IN  /\ calls' = Append(calls, Call("createQueue", queue.name))
           /\ \/ /\ GatewayFails
                 /\ UNCHANGED brokerVars
              \/ /\ PutAccepted(brokerQueues, rec)
                 /\ brokerQueues' = brokerQueues \cup {rec}
                 /\ brokerBindings' = brokerBindings \cup DefaultBindings({rec})
                 /\ Goto(AfterQueue(config, idx))
                 /\ UNCHANGED <<brokerExchanges, failures>>
              \/ /\ ~PutAccepted(brokerQueues, rec)
                 /\ Throw(RequestFailedMsg(<<"4", "0", "0">>))
                 /\ UNCHANGED <<brokerVars, failures>>
    /\ UNCHANGED <<deleteLocals, systemId, listed, config, metadata, broker0>>
    /\ UNCHANGED <<userParams, resources, clientVars, functionVars, call2>>

\* createBinding of the binding spec idx, with the metadata merged in
CS_CreateBinding ==
    /\ pc = "cs_bind"
    /\ LET binding == config.bindings[idx]
           rec == BindingRec(binding.source, binding.destination,
                             IF binding.destination_type = "undefined" THEN "queue"
                             ELSE binding.destination_type,
                             Merge(binding.arguments, metadata))
       IN  /\ calls' = Append(calls,
                          Call("createBinding", <<binding.source, binding.destination>>))
           /\ \/ /\ GatewayFails
                 /\ UNCHANGED brokerVars
              \/ /\ BindingAccepted(rec)
                 /\ brokerBindings' = brokerBindings \cup {rec}
                 /\ Goto(AfterBinding(config, idx))
                 /\ UNCHANGED <<brokerQueues, brokerExchanges, failures>>
              \/ /\ ~BindingAccepted(rec)
                 /\ Throw(NotFoundMsg)
                 /\ UNCHANGED <<brokerVars, failures>>
    /\ UNCHANGED <<deleteLocals, systemId, listed, config, metadata, broker0>>
    /\ UNCHANGED <<userParams, resources, clientVars, functionVars, call2>>

-----------------------------------------------------------------------------
(* The provisioning specification: a broker on which the queues Q1 and     *)
(* Q404 and the exchange E1 exist or not, created earlier for another      *)
(* system, and one createSystem call on it.                                *)

Vhost == <<"/">>
TemplateName == <<"r">>
TemplateVersion == <<"1">>

\* the arguments of a resource another system created earlier
OldArgs ==
    (KeySystemId :> SysB) @@ (KeyTemplate :> Tpl) @@ (KeyVersion :> <<"1">>)
    @@ (KeyCreatedAt :> CreatedBefore)

NoReuse == [reuseIfExists |-> FALSE, validateIfExists |-> <<>>]

Policies ==
    {NoReuse,
     [reuseIfExists |-> TRUE, validateIfExists |-> <<>>],
     [reuseIfExists |-> TRUE, validateIfExists |-> << ("durable" :> FALSE) >>],
     [reuseIfExists |-> TRUE, validateIfExists |-> << ("durable" :> TRUE) >>]}

QueuePolicies ==
    Policies \cup
    {[reuseIfExists |-> TRUE,
      validateIfExists |-> << ("arguments" :> (KeySystemId :> SysA)) >>]}

ResourceSpec(name, args, policy) ==
    [name |-> name, durable |-> TRUE, auto_delete |-> FALSE, arguments |-> args,
     reuseIfExists |-> policy.reuseIfExists,
     validateIfExists |-> policy.validateIfExists]

\* arguments of a spec that name an ownership key themselves
OwnTag == (KeySystemId :> <<"o">>)

ExchangeLists ==
    {<<ResourceSpec(NameE1, EmptyArgs, p)>> : p \in Policies}
    \cup {<<ResourceSpec(NameE1, EmptyArgs, p), ResourceSpec(NameE2, OwnTag, NoReuse)>> :
            p \in Policies}

QueueLists ==
    {<<ResourceSpec(n, EmptyArgs, p)>> : n \in {NameQ1, NameQ404}, p \in QueuePolicies}
    \cup {<<ResourceSpec(NameQ1, EmptyArgs, p), ResourceSpec(NameQ2, OwnTag, NoReuse)>> :
            p \in QueuePolicies}

BindingSpec(source, destination, destination_type) ==
    [source |-> source, destination |-> destination,
     destination_type |-> destination_type, arguments |-> EmptyArgs]

BindingLists(qlist) ==
    {<<>>,
     <<BindingSpec(NameE1, qlist[1].name, "undefined")>>,
     <<BindingSpec(NameE1, qlist[1].name, "undefined"),
       BindingSpec(NameE1, NameE2, "exchange")>>}

Configs ==
    {[vhost |-> Vhost, exchanges |-> el, queues |-> ql, bindings |-> bl] :
        el \in ExchangeLists,
        ql \in QueueLists,
        bl \in UNION {BindingLists(q) : q \in QueueLists}}

\* the userParams maps: no prefix, a prefix, an empty prefix, and maps whose
\* keys are named as the other two parts of the system id
UserParamSets ==
    {EmptyArgs,
     ("queue_prefix" :> <<"p">>),
     ("queue_prefix" :> <<>>),
     ("vhost" :> <<"x">>),
     ("templateName" :> <<"y">>) @@ ("queue_prefix" :> <<"p">>)}

\* the arguments of a resource that an earlier call for the template, the
\* vhost and no prefix created
PriorArgs ==
    (KeyCreatedAt :> CreatedBefore)
    @@ generateManageMetadata(TemplateName \o <<"@">> \o Vhost \o <<":">> \o Unnamed,
                              TemplateName, TemplateVersion)

ProvisionQueueSets ==
    {qs \cup q3 :
        qs \in SUBSET {QueueRec(NameQ1, TRUE, OldArgs), QueueRec(NameQ404, TRUE, OldArgs)},
        q3 \in {{}, {QueueRec(NameQ3, TRUE, PriorArgs)}}}

ProvisionExchangeSets ==
    LET base == {ExchangeRec(NameDefault, TRUE, EmptyArgs),
                 ExchangeRec(NameAmqTopic, TRUE, EmptyArgs)}
    IN  {base, base \cup {ExchangeRec(NameE1, TRUE, OldArgs)}}

InitProvision ==
    /\ brokerQueues \in ProvisionQueueSets
    /\ brokerExchanges \in ProvisionExchangeSets
    /\ brokerBindings = DefaultBindings(brokerQueues)
    /\ pc = "idle"
    /\ systemId = Undefined
    /\ sysQueues = <<>>
    /\ usedExchangeNames = <<>>
    /\ deletedQueues = <<>>
    /\ deletedExchanges = <<>>
    /\ existingSystems = {}
    /\ exchangesToCheck = <<>>
    /\ currentExchanges = <<>>
    /\ hasChanges = FALSE
    /\ remaining = <<>>
    /\ currentBindings = <<>>
    /\ idx = 1
    /\ report = <<>>
    /\ listed = <<>>
    /\ config = NoConfig
    /\ metadata = EmptyArgs
    /\ error = <<>>
    /\ calls = <<>>
    /\ rounds = 0
    /\ failures = 0
    /\ failedDeletes = {}
    /\ deletedWithBindings = {}
    /\ broker0 = [queues |-> brokerQueues, exchanges |-> brokerExchanges,
                  bindings |-> brokerBindings]
    /\ userParams = EmptyArgs
    /\ call2 = NoSecond
    /\ resources = NoResources
    /\ ClientConstructed
    /\ NoEvaluation

NextProvision ==
    \/ /\ pc = "idle"
       /\ \E cfg \in Configs, params \in UserParamSets :
             /\ \A i \in 1..Len(cfg.bindings) :
                   cfg.bindings[i].destination_type = "exchange"
                   \/ cfg.bindings[i].destination = cfg.queues[1].name
             /\ CS_Start(cfg, TemplateName, TemplateVersion, params)
    \/ CS_GetExchange
    \/ CS_CreateExchange
    \/ CS_GetQueue
    \/ CS_CreateQueue
    \/ CS_CreateBinding
    \/ ListManagedSystems

SpecProvision == InitProvision /\ [][NextProvision]_vars

-----------------------------------------------------------------------------
(* Properties of createSystem.                                             *)

CallsOf(op) == SelectSeq(calls, LAMBDA c : c.op = op)
CallNames(op) == [i \in 1..Len(CallsOf(op)) |-> CallsOf(op)[i].name]
Called(op, name) == \E i \in 1..Len(calls) : calls[i] = Call(op, name)
IsPrefix(a, b) == Len(a) <= Len(b) /\ a = SubSeq(b, 1, Len(a))
SpecNames(list) == [i \in 1..Len(list) |-> list[i].name]
Existing0(name) == CHOOSE q \in broker0.queues : q.name = name

\* the lookup of the queue spec i has been answered, and no gateway call of
\* the run failed for a reason of the network or the broker
QueueLookupAnswered(i) ==
    /\ failures = 0
    /\ \/ Len(CallsOf("getQueue")) > i
       \/ Len(CallsOf("getQueue")) = i /\ pc # "cs_q_get"

\* C8 as stated: a queue spec whose queue exists and whose reuseIfExists is
\* false makes createSystem fail with the already-exists error, and no
\* createQueue is ever issued for it, whatever its name.
C8_Original ==
    \A i \in 1..Len(config.queues) :
        LET queue == config.queues[i]
        IN  (~queue.reuseIfExists /\ OnBroker(broker0.queues, queue.name)) =>
                /\ ~Called("createQueue", queue.name)
                /\ QueueLookupAnswered(i) =>
                      pc = "failed" /\ error = ExistsMsg("queue", queue.name)

\* C9 as stated: a queue spec with reuseIfExists = true and validateIfExists
\* = {durable: false} whose queue exists with durable = true makes
\* createSystem fail with an error that names the queue and the durable
\* mismatch; no createQueue is issued for it or for a later queue, no
\* createBinding is issued, and the queue is unchanged.
C9_Original ==
    \A i \in 1..Len(config.queues) :
        LET queue == config.queues[i]
        IN  (/\ queue.reuseIfExists
             /\ queue.validateIfExists = << ("durable" :> FALSE) >>
             /\ OnBroker(broker0.queues, queue.name)
             /\ Existing0(queue.name).durable) =>
                /\ \A j \in i..Len(config.queues) :
                      ~Called("createQueue", config.queues[j].name)
                /\ Len(CallsOf("createBinding")) = 0
                /\ Existing0(queue.name) \in brokerQueues
                /\ QueueLookupAnswered(i) =>
                      /\ pc = "failed"
                      /\ error = validateResource(Existing0(queue.name),
                                     ("durable" :> FALSE), "queue", queue.name)
                      /\ Includes(error, queue.name)
                      /\ Includes(error, <<"durable", ": expected ">>)

Phase(op) ==
    IF op \in {"getExchange", "createExchange"} THEN 1
    ELSE IF op \in {"getQueue", "createQueue"} THEN 2
    ELSE 3

BindingNames(list) ==
    [i \in 1..Len(list) |-> <<list[i].source, list[i].destination>>]

\* C10: the gateway calls of createSystem are ordered: the exchange specs
\* are looked up (and created when absent) in listed order, one at a time,
\* then the queue specs, then the bindings; a queue call is issued only when
\* every exchange spec has been looked up and is on the broker, a
\* createBinding only when every queue spec has been looked up and is on the
\* broker.
C10_WritesOrdered ==
    /\ \A i, j \in 1..Len(calls) :
          i < j => Phase(calls[i].op) <= Phase(calls[j].op)
    /\ IsPrefix(CallNames("getExchange"), SpecNames(config.exchanges))
    /\ IsPrefix(CallNames("getQueue"), SpecNames(config.queues))
    /\ IsPrefix(CallNames("createBinding"), BindingNames(config.bindings))
    /\ \A i \in 1..Len(calls) :
          /\ calls[i].op = "createExchange" =>
                i > 1 /\ calls[i - 1] = Call("getExchange", calls[i].name)
          /\ calls[i].op = "createQueue" =>
                i > 1 /\ calls[i - 1] = Call("getQueue", calls[i].name)
    /\ Len(CallsOf("getQueue")) > 0 =>
          /\ Len(CallsOf("getExchange")) = Len(config.exchanges)
          /\ \A k \in 1..Len(config.exchanges) :
                OnBroker(brokerExchanges, config.exchanges[k].name)
    /\ Len(CallsOf("createBinding")) > 0 =>
          /\ Len(CallsOf("getQueue")) = Len(config.queues)
          /\ \A k \in 1..Len(config.queues) :
                OnBroker(brokerQueues, config.queues[k].name)

\* a run that reused an exchange, created another, reused a queue, created
\* another and issued two bindings
C10_Witness ==
    /\ pc = "done"
    /\ Len(config.exchanges) = 2
    /\ Len(config.queues) = 2
    /\ Len(CallsOf("createBinding")) = 2
    /\ Len(CallsOf("createExchange")) = 1
    /\ Len(CallsOf("createQueue")) = 1

-----------------------------------------------------------------------------
(* The ownership metadata of what createSystem creates.                    *)

\* what createSystem has put on the broker so far; a new queue's binding to
\* the default exchange is the broker's own
CreatedQueues == brokerQueues \ broker0.queues
CreatedExchanges == brokerExchanges \ broker0.exchanges
CreatedBindings == {b \in brokerBindings \ broker0.bindings : b.source # NameDefault}

\* the four ownership keys of r have the values of the running call
CarriesMetadata(r) ==
    /\ Arg(r, KeySystemId) = systemId
    /\ Arg(r, KeyTemplate) = TemplateName
    /\ Arg(r, KeyVersion) = TemplateVersion
    /\ Arg(r, KeyCreatedAt) = Now

\* C11: every exchange, queue and binding createSystem creates carries the
\* four ownership keys with the values of the call, the same system id on all
\* of them, also when the spec's own arguments name one of the keys.
C11_MetadataOnCreated ==
    /\ \A q \in CreatedQueues : CarriesMetadata(q)
    /\ \A e \in CreatedExchanges : CarriesMetadata(e)
    /\ \A b \in CreatedBindings : CarriesMetadata(b)

\* a finished call that created an exchange and a queue whose specs name
\* x-manage-system-id themselves, and a binding
C11_Witness ==
    /\ pc = "done"
    /\ \E i \in 1..Len(config.queues) :
          /\ KeySystemId \in DOMAIN config.queues[i].arguments
          /\ OnBroker(CreatedQueues, config.queues[i].name)
    /\ \E i \in 1..Len(config.exchanges) :
          /\ KeySystemId \in DOMAIN config.exchanges[i].arguments
          /\ OnBroker(CreatedExchanges, config.exchanges[i].name)
    /\ CreatedBindings # {}

\* the system id the call's own arguments derive
PrefixOf(params) ==
    IF "queue_prefix" \in DOMAIN params /\ params["queue_prefix"] # <<>>
    THEN params["queue_prefix"] ELSE Unnamed

OwnSystemId ==
    TemplateName \o <<"@">> \o config.vhost \o <<":">> \o PrefixOf(userParams)

\* C12: the resources createSystem creates are tagged with the system id
\* templateName@config.vhost:(queue_prefix or 'unnamed') of the call's own
\* arguments, whatever keys userParams has.
C12_Original ==
    \A r \in CreatedQueues \cup CreatedExchanges :
        Arg(r, KeySystemId) = OwnSystemId

-----------------------------------------------------------------------------
(* The system identity token: generateSystemId of api.ts and parseSystemId *)
(* of types/system.ts, applied to (template, vhost, prefix) triples.       *)

\* a broker and a client nothing has been asked of
NoOperation ==
    /\ brokerQueues = {}
    /\ brokerExchanges = {}
    /\ brokerBindings = {}
    /\ systemId = Undefined
    /\ sysQueues = <<>>
    /\ usedExchangeNames = <<>>
    /\ deletedQueues = <<>>
    /\ deletedExchanges = <<>>
    /\ existingSystems = {}
    /\ exchangesToCheck = <<>>
    /\ currentExchanges = <<>>
    /\ hasChanges = FALSE
    /\ remaining = <<>>
    /\ currentBindings = <<>>
    /\ idx = 1
    /\ report = <<>>
    /\ listed = <<>>
    /\ config = NoConfig
    /\ metadata = EmptyArgs
    /\ error = <<>>
    /\ calls = <<>>
    /\ rounds = 0
    /\ failures = 0
    /\ failedDeletes = {}
    /\ deletedWithBindings = {}
    /\ broker0 = [queues |-> {}, exchanges |-> {}, bindings |-> {}]
    /\ userParams = EmptyArgs
    /\ call2 = NoSecond
    /\ resources = NoResources

operationVars == <<brokerVars, deleteVars, idx, listed, config, metadata, error,
                   calls, failures, broker0, userParams, resources, call2>>

\* what a function returns instead of a value: null
Null == <<"null">>

\* the position of the first c in s from position from on, 0 if there is none
RECURSIVE IndexFrom(_, _, _)
IndexFrom(s, c, from) ==
    IF from > Len(s) THEN 0
    ELSE IF s[from] = c THEN from
    ELSE IndexFrom(s, c, from + 1)

\* /^([^@]+)@([^:]+):(.+)$/ : the template ends before the first '@', the
\* vhost before the first ':' after it, the prefix is the rest; '.' matches
\* no line break
parseSystemId(token) ==
    LET at == IndexFrom(token, "@", 1)
        colon == IF at = 0 THEN 0 ELSE IndexFrom(token, ":", at + 1)
    IN  IF at <= 1 \/ colon <= at + 1 \/ colon = Len(token)
           \/ IndexFrom(token, "\n", colon + 1) # 0
        THEN Null
        ELSE [template |-> SubSeq(token, 1, at - 1),
              vhost |-> SubSeq(token, at + 1, colon - 1),
              queuePrefix |-> SubSeq(token, colon + 1, Len(token))]

\* the characters of the names: a letter and the two separators of the token
NameChars == {"a", "@", ":"}
IdentityNames == UNION {[1..n -> NameChars] : n \in 1..MaxNameLen}
IdentityPrefixes == IdentityNames \cup {Undefined, <<>>, Unnamed}
IdentityTriples ==
    [templateName : IdentityNames, vhost : IdentityNames,
     queue_prefix : IdentityPrefixes]

\* the SystemIdParams object of a triple: no queue_prefix key when it is absent
IdentityParams(triple) ==
    LET named == ("templateName" :> triple.templateName) @@ ("vhost" :> triple.vhost)
    IN  IF triple.queue_prefix = Undefined THEN named
        ELSE named @@ ("queue_prefix" :> triple.queue_prefix)

\* generateSystemId is applied to the triple
DeriveSystemId ==
    /\ pc = "idle"
    /\ output' = [token |-> generateSystemId(IdentityParams(input)), parsed |-> Null]
    /\ pc' = "derived"
    /\ UNCHANGED <<operationVars, clientVars, input>>

\* parseSystemId is applied to the token
ParseSystemId ==
    /\ pc = "derived"
    /\ output' = [output EXCEPT !.parsed = parseSystemId(output.token)]
    /\ pc' = "parsed"
    /\ UNCHANGED <<operationVars, clientVars, input>>

InitIdentity ==
    /\ NoOperation
    /\ ClientConstructed
    /\ pc = "idle"
    /\ input \in IdentityTriples
    /\ output = <<>>

NextIdentity ==
    \/ DeriveSystemId
    \/ ParseSystemId

SpecIdentity == InitIdentity /\ [][NextIdentity]_vars

\* two triples are the same when template and vhost are and the prefixes are,
\* an absent and an empty prefix being the same prefix
NoPrefix(triple) == triple.queue_prefix \in {Undefined, <<>>}
SameTriple(t1, t2) ==
    /\ t1.templateName = t2.templateName
    /\ t1.vhost = t2.vhost
    /\ \/ t1.queue_prefix = t2.queue_prefix
       \/ NoPrefix(t1) /\ NoPrefix(t2)

\* C13: two different (template, vhost, prefix) triples never derive the same
\* token: no other triple derives the token of the triple at hand.
C13_Original ==
    pc = "derived" =>
        \A other \in IdentityTriples :
            ~SameTriple(other, input) =>
                generateSystemId(IdentityParams(other)) # output.token

-----------------------------------------------------------------------------
(* The credentials and the vhost cache of the client: setCredentials,      *)
(* clearCredentials, getVhosts and the handlers of its request, which run   *)
(* when the request settles, interleaved with further calls.               *)

UnauthenticatedMsg == <<"credentials not set, call setCredentials() first">>

hasCredentials == username # "" /\ password # ""

\* the vhost list the broker answers to a user
VhostsOf(user) == << <<"/">>, <<user>> >>

\* the records of results: one per call made on the client
CallRecord(op, got) == [op |-> op, at |-> epoch, got |-> got]
GotValue(value) == [kind |-> "value", value |-> value]
GotPromise(id) == [kind |-> "promise", id |-> id]
GotError(message) == [kind |-> "error", message |-> message]
GotNothing == [kind |-> "void"]

\* a /vhosts request: who it was sent as, during which credentials, its state
FetchRecord == [state |-> "pending", by |-> username, at |-> epoch]

\* vhostsCache = null: a list no user's request was answered with
NoCache == [vhosts |-> <<>>, by |-> "", at |-> 0]

\* clearCache()
clearCache == [vhostsCache |-> NoCache, vhostsCachePromise |-> 0]

\* setCredentials(user, pass)
SetCredentials(user, pass) ==
    /\ Len(results) < MaxCalls
    /\ username' = user
    /\ password' = pass
    /\ vhostsCache' = clearCache.vhostsCache
    /\ vhostsCachePromise' = clearCache.vhostsCachePromise
    /\ epoch' = epoch + 1
    /\ results' = Append(results, [op |-> "setCredentials", at |-> epoch + 1,
                                   got |-> GotNothing])
    /\ UNCHANGED <<fetches, operationVars, functionVars, pc>>

\* clearCredentials()
ClearCredentials ==
    /\ Len(results) < MaxCalls
    /\ username' = ""
    /\ password' = ""
    /\ results' = Append(results, CallRecord("clearCredentials", GotNothing))
    /\ UNCHANGED <<vhostsCache, vhostsCachePromise, fetches, epoch, operationVars,
                   functionVars, pc>>

\* getVhosts(): the cached list, the pending request, or a new request; without
\* credentials the new request throws before anything is sent and the catch
\* handler resets vhostsCachePromise
GetVhosts ==
    /\ Len(results) < MaxCalls
    /\ IF vhostsCache # NoCache
       THEN /\ results' = Append(results, CallRecord("getVhosts", GotValue(vhostsCache)))
            /\ UNCHANGED <<vhostsCachePromise, fetches>>
       ELSE IF vhostsCachePromise # 0
       THEN /\ results' = Append(results,
                                 CallRecord("getVhosts", GotPromise(vhostsCachePromise)))
            /\ UNCHANGED <<vhostsCachePromise, fetches>>
       ELSE IF ~hasCredentials
       THEN /\ results' = Append(results,
                                 CallRecord("getVhosts", GotError(UnauthenticatedMsg)))
            /\ UNCHANGED <<vhostsCachePromise, fetches>>
       ELSE /\ fetches' = Append(fetches, FetchRecord)
            /\ vhostsCachePromise' = Len(fetches) + 1
            /\ results' = Append(results,
                                 CallRecord("getVhosts", GotPromise(Len(fetches) + 1)))
    /\ UNCHANGED <<username, password, vhostsCache, epoch, operationVars,
                   functionVars, pc>>

\* any other gateway call (getOverview): request() throws without credentials
GetOverview ==
    /\ Len(results) < MaxCalls
    /\ results' = Append(results,
                         CallRecord("getOverview",
                                    IF hasCredentials THEN GotValue(<<"overview">>)
                                    ELSE GotError(UnauthenticatedMsg)))
    /\ UNCHANGED <<username, password, vhostsCache, vhostsCachePromise, fetches, epoch,
                   operationVars, functionVars, pc>>

\* the request id is answered with the list: the then handler
FetchSucceeds(id) ==
    /\ fetches[id].state = "pending"
    /\ fetches' = [fetches EXCEPT ![id].state = "fulfilled"]
    /\ vhostsCache' = [vhosts |-> VhostsOf(fetches[id].by), by |-> fetches[id].by,
                       at |-> fetches[id].at]
    /\ vhostsCachePromise' = 0
    /\ UNCHANGED <<username, password, results, epoch, operationVars, functionVars, pc>>

\* the request id fails: the catch handler
FetchFails(id) ==
    /\ fetches[id].state = "pending"
    /\ fetches' = [fetches EXCEPT ![id].state = "rejected"]
    /\ vhostsCachePromise' = 0
    /\ UNCHANGED <<username, password, vhostsCache, results, epoch, operationVars,
                   functionVars, pc>>

Users == {"a", "b"}

InitVhosts ==
    /\ NoOperation
    /\ NoEvaluation
    /\ ClientConstructed
    /\ pc = "idle"

NextVhosts ==
    \/ \E user \in Users : SetCredentials(user, "secret")
    \/ ClearCredentials
    \/ GetVhosts
    \/ GetOverview
    \/ \E id \in 1..Len(fetches) : FetchSucceeds(id)
    \/ \E id \in 1..Len(fetches) : FetchFails(id)

SpecVhosts == InitVhosts /\ [][NextVhosts]_vars

Pending == {id \in 1..Len(fetches) : fetches[id].state = "pending"}

\* the getVhosts calls that were handed the request id
Awaiting(id) ==
    {i \in 1..Len(results) : results[i].op = "getVhosts" /\ results[i].got = GotPromise(id)}

\* C14: at most one /vhosts request is in flight at any time, under every
\* interleaving of getVhosts calls, completions and setCredentials calls.
C14_Original == Cardinality(Pending) <= 1

\* what the call i of results delivers to its caller in the end: the value it
\* returned, or the value its request was answered with
Delivered(i) ==
    IF results[i].got.kind = "value" THEN {results[i].got.value}
    ELSE IF results[i].got.kind = "promise"
            /\ fetches[results[i].got.id].state = "fulfilled"
    THEN {[vhosts |-> VhostsOf(fetches[results[i].got.id].by),
           by |-> fetches[results[i].got.id].by, at |-> fetches[results[i].got.id].at]}
    ELSE {}

\* C15: a getVhosts call made after setCredentials returned never delivers a
\* list that was fetched with the credentials before that setCredentials.
C15_Original ==
    \A i \in 1..Len(results) :
        results[i].op = "getVhosts" =>
            \A list \in Delivered(i) : list.at = results[i].at

\* the calls made after a clearCredentials with no setCredentials since
Unauthenticated(i) ==
    \E c \in 1..(i - 1) :
        /\ results[c].op = "clearCredentials"
        /\ \A k \in c..i : results[k].op # "setCredentials"

\* C16: after clearCredentials and until the next setCredentials, every
\* gateway call fails with the unauthenticated error and returns no data.
C16_Original ==
    \A i \in 1..Len(results) :
        (results[i].op \in {"getVhosts", "getOverview"} /\ Unauthenticated(i)) =>
            results[i].got = GotError(UnauthenticatedMsg)

-----------------------------------------------------------------------------
(* The template functions (src/src/lib/credentialsManager.ts).             *)
(*                                                                         *)
(* A JavaScript value is a tuple of strings whose head is its type:        *)
(* <<"string", c1, .., cn>> with the characters, <<"number", d1, .., dn>>  *)
(* with the decimal digits, <<"boolean", "true">>, <<"null">>,             *)
(* <<"undefined">>, and <<"function", text>>.  An object is a function     *)
(* over its own keys; keys are texts.                                      *)

StringValue(text) == <<"string">> \o text
NumberValue(digits) == <<"number">> \o digits
BooleanValue(b) == <<"boolean">> \o (IF b THEN <<"true">> ELSE <<"false">>)
EmptyString == StringValue(<<>>)
TypeOf(v) == Head(v)

\* Object.prototype.constructor, which every object literal inherits
ObjectConstructor == <<"function", "function Object() { [native code] }">>
Constructor == <<"c", "o", "n", "s", "t", "r", "u", "c", "t", "o", "r">>
InheritedKeys == {Constructor}

\* obj[key] of an object literal: the own property, else the inherited one
Lookup(obj, key) ==
    IF key \in DOMAIN obj THEN obj[key]
    ELSE IF key \in InheritedKeys THEN ObjectConstructor
    ELSE Undefined

\* String(value)
ToText(v) ==
    IF TypeOf(v) \in {"string", "number", "boolean", "function"} THEN Tail(v)
    ELSE IF v = Null THEN <<"n", "u", "l", "l">>
    ELSE <<"u", "n", "d", "e", "f", "i", "n", "e", "d">>

DigitValue ==
    [d \in {"0", "1", "2", "3", "4", "5", "6", "7", "8", "9"} |->
        CASE d = "0" -> 0 [] d = "1" -> 1 [] d = "2" -> 2 [] d = "3" -> 3
          [] d = "4" -> 4 [] d = "5" -> 5 [] d = "6" -> 6 [] d = "7" -> 7
          [] d = "8" -> 8 [] d = "9" -> 9]

RECURSIVE DigitsValue(_)
DigitsValue(digits) ==
    IF digits = <<>> THEN 0
    ELSE 10 * DigitsValue(SubSeq(digits, 1, Len(digits) - 1))
         + DigitValue[digits[Len(digits)]]

AllDigits(text) == \A i \in 1..Len(text) : text[i] \in DOMAIN DigitValue

\* Number(value): the number, or NaN
ToNumber(v) ==
    IF TypeOf(v) = "number" THEN [nan |-> FALSE, n |-> DigitsValue(Tail(v))]
    ELSE IF TypeOf(v) = "string" /\ AllDigits(Tail(v))
    THEN [nan |-> FALSE, n |-> DigitsValue(Tail(v))]
    ELSE IF TypeOf(v) = "boolean"
    THEN [nan |-> FALSE, n |-> IF v = BooleanValue(TRUE) THEN 1 ELSE 0]
    ELSE IF v = Null THEN [nan |-> FALSE, n |-> 0]
    ELSE [nan |-> TRUE, n |-> 0]

\* the patterns of the templates at hand: one or more 'a'
PatternAs == <<"^", "a", "+", "$">>

\* new RegExp(pattern).test(text)
RegExpTest(pattern, text) ==
    IF pattern = PatternAs
    THEN Len(text) >= 1 /\ \A i \in 1..Len(text) : text[i] = "a"
    ELSE TRUE

\* value === undefined || value === null || value === ''
IsMissing(value) ==
    value = Undefined \/ value = Null \/ value = EmptyString

ValidationError(field, message) == [field |-> field, message |-> message]

RECURSIVE JoinComma(_)
\* enum.join(', ')
JoinComma(values) ==
    IF values = <<>> THEN <<>>
    ELSE IF Len(values) = 1 THEN ToText(values[1])
    ELSE ToText(values[1]) \o <<",", " ">> \o JoinComma(Tail(values))

\* the errors of a number parameter with a value
NumberErrors(param, value) ==
    LET numValue == ToNumber(value)
        min == param.validation.min
        max == param.validation.max
    IN  IF numValue.nan
        THEN << ValidationError(param.name, param.label \o <<" must be a number">>) >>
        ELSE (IF min # Undefined /\ numValue.n < DigitsValue(Tail(min))
              THEN << ValidationError(param.name,
                          param.label \o <<" must not be less than ">> \o Tail(min)) >>
              ELSE <<>>)
             \o
             (IF max # Undefined /\ numValue.n > DigitsValue(Tail(max))
              THEN << ValidationError(param.name,
                          param.label \o <<" must not be greater than ">> \o Tail(max)) >>
              ELSE <<>>)

\* the errors of a string parameter with a value
StringErrors(param, value) ==
    IF param.validation.pattern # Undefined
       /\ ~RegExpTest(param.validation.pattern, ToText(value))
    THEN << ValidationError(param.name, param.label \o <<" has the wrong format">>) >>
    ELSE <<>>

\* the errors of a boolean parameter with a value
BooleanErrors(param, value) ==
    IF TypeOf(value) # "boolean"
    THEN << ValidationError(param.name, param.label \o <<" must be a boolean">>) >>
    ELSE <<>>

\* the errors of the enum of a parameter with a value
EnumErrors(param, value) ==
    IF param.validation.hasEnum
       /\ ~(\E i \in 1..Len(param.validation.enum) : param.validation.enum[i] = value)
    THEN << ValidationError(param.name,
                param.label \o <<" must be one of: ">>
                \o JoinComma(param.validation.enum)) >>
    ELSE <<>>

\* the body of validateParameters' loop: the errors of one parameter
ParamErrors(param, values) ==
    LET value == Lookup(values, param.name)
    IN  IF param.required /\ IsMissing(value)
        THEN << ValidationError(param.name, param.label \o <<" is required">>) >>
        ELSE IF IsMissing(value) THEN <<>>
        ELSE IF param.type = "number" /\ ToNumber(value).nan
        THEN NumberErrors(param, value)
        ELSE (IF param.type = "number" THEN NumberErrors(param, value) ELSE <<>>)
             \o (IF param.type = "string" THEN StringErrors(param, value) ELSE <<>>)
             \o (IF param.type = "boolean" THEN BooleanErrors(param, value) ELSE <<>>)
             \o EnumErrors(param, value)

RECURSIVE validateParameters(_, _)
validateParameters(parameters, values) ==
    IF parameters = <<>> THEN <<>>
    ELSE ParamErrors(Head(parameters), values)
         \o validateParameters(Tail(parameters), values)

\* the loop that merges the defaults: finalValues after the parameters
RECURSIVE FinalValues(_, _, _)
FinalValues(parameters, values, finalValues) ==
    IF parameters = <<>> THEN finalValues
    ELSE LET param == Head(parameters)
             next == IF Lookup(values, param.name) # Undefined
                     THEN Merge(finalValues, (param.name :> Lookup(values, param.name)))
                     ELSE IF param.default # Undefined
                     THEN Merge(finalValues, (param.name :> param.default))
                     ELSE finalValues
         IN  FinalValues(Tail(parameters), values, next)

\* \w
WordChars ==
    {"a", "b", "c", "d", "m", "n", "o", "p", "q", "r", "s", "t", "u", "x", "_"}
    \cup DOMAIN DigitValue

\* the end of the longest run of \w characters of s that starts at from
\* (from - 1 when s[from] is none)
RECURSIVE WordEnd(_, _)
WordEnd(s, from) ==
    IF from <= Len(s) /\ s[from] \in WordChars THEN WordEnd(s, from + 1)
    ELSE from - 1

\* the match of /\$\{(\w+)\}/ at position i of s: the position of its '}',
\* 0 if there is no match at i
TokenEnd(s, i) ==
    IF i + 3 <= Len(s) /\ s[i] = "$" /\ s[i + 1] = "{"
       /\ WordEnd(s, i + 2) >= i + 2
       /\ WordEnd(s, i + 2) < Len(s)
       /\ s[WordEnd(s, i + 2) + 1] = "}"
    THEN WordEnd(s, i + 2) + 1
    ELSE 0

\* the callback of replace: String(value), '' for undefined
TokenText(finalValues, paramName) ==
    IF Lookup(finalValues, paramName) # Undefined
    THEN ToText(Lookup(finalValues, paramName))
    ELSE <<>>

\* obj.replace(/\$\{(\w+)\}/g, ...) from position i on
RECURSIVE ReplaceAll(_, _, _)
ReplaceAll(s, i, finalValues) ==
    IF i > Len(s) THEN <<>>
    ELSE IF TokenEnd(s, i) # 0
    THEN TokenText(finalValues, SubSeq(s, i + 2, TokenEnd(s, i) - 1))
         \o ReplaceAll(s, TokenEnd(s, i) + 1, finalValues)
    ELSE <<s[i]>> \o ReplaceAll(s, i + 1, finalValues)

\* replaceParams of a value that is no array and no object
ReplaceLeaf(v, finalValues) ==
    IF TypeOf(v) = "string"
    THEN IF TokenEnd(Tail(v), 1) = Len(Tail(v)) /\ Len(Tail(v)) > 0
         THEN LET value == Lookup(finalValues, SubSeq(Tail(v), 3, Len(Tail(v)) - 1))
              IN  IF value # Undefined THEN value ELSE EmptyString
         ELSE StringValue(ReplaceAll(Tail(v), 1, finalValues))
    ELSE v

\* replaceParams of an object of leaves, and of an array of such objects
ReplaceObject(obj, finalValues) ==
    [k \in DOMAIN obj |-> ReplaceLeaf(obj[k], finalValues)]
ReplaceArray(list, finalValues) ==
    [i \in 1..Len(list) |-> ReplaceObject(list[i], finalValues)]

\* JSON.parse(JSON.stringify(obj)) of an object of leaves: a property whose
\* value is undefined or a function is left out
JsonCopy(obj) ==
    [k \in {key \in DOMAIN obj : TypeOf(obj[key]) \notin {"undefined", "function"}}
        |-> obj[k]]
JsonCopyArray(list) == [i \in 1..Len(list) |-> JsonCopy(list[i])]

\* template.exchanges || []
OrEmpty(template, key) == IF key \in DOMAIN template THEN template[key] ELSE <<>>

renderTemplate(template, values) ==
    LET finalValues == FinalValues(template["parameters"], values, EmptyArgs)
    IN  [exchanges |-> ReplaceArray(JsonCopyArray(OrEmpty(template, "exchanges")),
                                    finalValues),
         queues |-> ReplaceArray(JsonCopyArray(OrEmpty(template, "queues")),
                                 finalValues),
         bindings |-> ReplaceArray(JsonCopyArray(OrEmpty(template, "bindings")),
                                   finalValues)]

\* !value of the values that occur in a document
Falsy(v) ==
    v \in {Undefined, Null, EmptyString, NumberValue(<<"0">>), BooleanValue(FALSE)}

ParseFailed(message) ==
    [ok |-> FALSE, error |-> <<"template parsing failed: ">> \o message]

\* the first parameter of the list that lacks a field: the message thrown for
\* it, <<>> when every parameter is complete
RECURSIVE ParameterProblem(_)
ParameterProblem(items) ==
    IF items = <<>> THEN <<>>
    ELSE LET param == Head(items)
         IN  IF Falsy(Lookup(param, <<"name">>))
             THEN <<"a parameter lacks the name field">>
             ELSE IF Falsy(Lookup(param, <<"label">>))
             THEN <<"parameter ">> \o ToText(param[<<"name">>])
                  \o <<" lacks the label field">>
             ELSE IF Falsy(Lookup(param, <<"type">>))
             THEN <<"parameter ">> \o ToText(param[<<"name">>])
                  \o <<" lacks the type field">>
             ELSE IF Lookup(param, <<"required">>) = Undefined
             THEN <<"parameter ">> \o ToText(param[<<"name">>])
                  \o <<" lacks the required field">>
             ELSE ParameterProblem(Tail(items))

\* template.template?.name of the document
MetaField(doc, key) ==
    IF "template" \in DOMAIN doc THEN Lookup(doc["template"], key) ELSE Undefined

\* !doc[key] || !Array.isArray(doc[key])
NoArray(doc, key) == key \notin DOMAIN doc \/ ~doc[key].isArray

\* parseTemplate of the document yaml.load returns
parseTemplate(doc) ==
    IF Falsy(MetaField(doc, <<"name">>))
    THEN ParseFailed(<<"the template lacks the field template.name">>)
    ELSE IF Falsy(MetaField(doc, <<"version">>))
    THEN ParseFailed(<<"the template lacks the field template.version">>)
    ELSE IF Falsy(MetaField(doc, <<"description">>))
    THEN ParseFailed(<<"the template lacks the field template.description">>)
    ELSE IF NoArray(doc, "parameters")
    THEN ParseFailed(<<"the template lacks the parameters array">>)
    ELSE IF NoArray(doc, "queues")
    THEN ParseFailed(<<"the template lacks the queues array">>)
    ELSE IF ParameterProblem(doc["parameters"].items) # <<>>
    THEN ParseFailed(ParameterProblem(doc["parameters"].items))
    ELSE [ok |-> TRUE, error |-> <<>>]

-----------------------------------------------------------------------------
(* The template specification: one of the three functions is applied to    *)
(* an input drawn from a family.                                           *)

ValidateParameters ==
    /\ pc = "idle"
    /\ input.fn = "validateParameters"
    /\ output' = validateParameters(input.template["parameters"], input.values)
    /\ pc' = "validated"
    /\ UNCHANGED <<operationVars, clientVars, input>>

RenderTemplate ==
    /\ pc = "idle"
    /\ input.fn = "renderTemplate"
    /\ output' = renderTemplate(input.template, input.values)
    /\ pc' = "rendered"
    /\ UNCHANGED <<operationVars, clientVars, input>>

ParseTemplate ==
    /\ pc = "idle"
    /\ input.fn = "parseTemplate"
    /\ output' = parseTemplate(input.doc)
    /\ pc' = "template_parsed"
    /\ UNCHANGED <<operationVars, clientVars, input>>

\* parameter names and labels
ParamN == <<"n">>
ParamM == <<"m">>
LabelOf(name) == <<"L">> \o name

NoValidation ==
    [min |-> Undefined, max |-> Undefined, pattern |-> Undefined,
     hasEnum |-> FALSE, enum |-> <<>>]

Validations ==
    {NoValidation,
     [NoValidation EXCEPT !.min = NumberValue(<<"3">>), !.max = NumberValue(<<"5">>)],
     [NoValidation EXCEPT !.pattern = PatternAs],
     [NoValidation EXCEPT !.hasEnum = TRUE,
                          !.enum = <<StringValue(<<"a">>), NumberValue(<<"4">>)>>]}

\* a TemplateParameter
Parameter(name, type, required, default, validation) ==
    [name |-> name, label |-> LabelOf(name), type |-> type, required |-> required,
     default |-> default, validation |-> validation]

ParameterTypes == {"string", "number", "boolean", "select"}

\* the declarations of the parameter n validateParameters is applied to
ValidatedDeclarations ==
    {Parameter(ParamN, t, r, d, v) :
        t \in ParameterTypes, r \in BOOLEAN,
        d \in {Undefined, NumberValue(<<"4">>)}, v \in Validations}

\* the declarations that may follow it: a name V has, and a name every
\* object inherits
SecondDeclarations ==
    {Parameter(ParamM, "string", TRUE, Undefined, NoValidation),
     Parameter(Constructor, "string", TRUE, Undefined, NoValidation),
     Parameter(Constructor, "boolean", TRUE, Undefined, NoValidation)}

ValidatedParameterLists ==
    {<<p>> : p \in ValidatedDeclarations}
    \cup {<<p, q>> : p \in ValidatedDeclarations, q \in SecondDeclarations}

\* the value maps: n absent or one of the values, m absent or a text
ValuesOfN ==
    {Undefined, Null, EmptyString, StringValue(<<"a">>), StringValue(<<"b">>),
     StringValue(<<"4">>), NumberValue(<<"4">>), NumberValue(<<"7">>),
     BooleanValue(TRUE), BooleanValue(FALSE)}

ValueMaps(ofN) ==
    {EmptyArgs, (ParamM :> StringValue(<<"b">>))}
    \cup {(ParamN :> v) : v \in ofN}
    \cup {(ParamN :> v) @@ (ParamM :> StringValue(<<"b">>)) : v \in ofN}

ValidateInputs ==
    {[fn |-> "validateParameters", template |-> ("parameters" :> ps), values |-> vs] :
        ps \in ValidatedParameterLists, vs \in ValueMaps(ValuesOfN)}

\* the parts a string field of a template is written of: literal text and
\* ${name} tokens
Literal(text) == [token |-> FALSE, text |-> text]
Token(name) == [token |-> TRUE, text |-> name]

PartText(part) ==
    IF part.token THEN <<"$", "{">> \o part.text \o <<"}">> ELSE part.text

RECURSIVE FieldText(_)
FieldText(parts) ==
    IF parts = <<>> THEN <<>> ELSE PartText(Head(parts)) \o FieldText(Tail(parts))

FieldParts ==
    {<<Token(ParamN)>>,
     <<Literal(<<"q", "-">>), Token(ParamN)>>,
     <<Token(ParamN), Token(ParamM)>>,
     <<Token(ParamN), Literal(<<".">>), Token(ParamM), Literal(<<".", "x">>)>>,
     <<Literal(<<"$", "{", "n">>)>>,
     <<Literal(<<"q">>)>>,
     <<Token(Constructor)>>,
     <<Literal(<<"q", "-">>), Token(Constructor)>>}

\* the declarations renderTemplate is applied to
RenderedParameterLists ==
    {<<Parameter(ParamN, "string", FALSE, d, NoValidation)>> \o second :
        d \in {Undefined, StringValue(<<"d">>), NumberValue(<<"7">>)},
        second \in {<<>>,
                    <<Parameter(ParamM, "string", FALSE, StringValue(<<"e">>),
                                NoValidation)>>,
                    <<Parameter(Constructor, "string", FALSE, Undefined,
                                NoValidation)>>}}

\* a template with one queue, whose name is the field of the parts
RenderedTemplate(ps, parts, durable) ==
    ("parameters" :> ps)
    @@ ("queues" :> << (<<"name">> :> StringValue(FieldText(parts)))
                       @@ (<<"durable">> :> durable) >>)

RenderInputs ==
    {[fn |-> "renderTemplate", template |-> RenderedTemplate(ps, parts, durable),
      values |-> vs, parts |-> parts] :
        ps \in RenderedParameterLists, parts \in FieldParts,
        durable \in {BooleanValue(TRUE), StringValue(FieldText(<<Token(ParamN)>>))},
        vs \in ValueMaps(ValuesOfN \ {StringValue(<<"b">>), NumberValue(<<"7">>)})}

\* the documents: the template metadata, the parameters and the queues are
\* absent, no array, an empty array, or an array
Meta(keys) == [k \in keys |-> StringValue(<<"s">>)]
MetaKeys == {<<"name">>, <<"version">>, <<"description">>}
Metas == {Meta(MetaKeys \ {k}) : k \in MetaKeys} \cup {Meta(MetaKeys)}

ArrayOf(items) == [isArray |-> TRUE, items |-> items]
NoArrayValue == [isArray |-> FALSE, items |-> <<>>]

DocumentParameter ==
    (<<"name">> :> StringValue(ParamN)) @@ (<<"label">> :> StringValue(LabelOf(ParamN)))
    @@ (<<"type">> :> StringValue(<<"s", "t", "r", "i", "n", "g">>))
    @@ (<<"required">> :> BooleanValue(FALSE))

Without(obj, key) == [k \in DOMAIN obj \ {key} |-> obj[k]]

DocumentParameterLists ==
    {<<>>, <<DocumentParameter>>}
    \cup {<<Without(DocumentParameter, k)>> : k \in DOMAIN DocumentParameter}
    \cup {<<DocumentParameter, Without(DocumentParameter, k)>> :
            k \in DOMAIN DocumentParameter}

DocumentQueueLists == {<<>>, << (<<"name">> :> StringValue(<<"q">>)) >>}

Documents ==
    {[k \in keys |->
        IF k = "template" THEN meta ELSE IF k = "parameters" THEN ps ELSE qs] :
        keys \in SUBSET {"template", "parameters", "queues"},
        meta \in Metas,
        ps \in {NoArrayValue} \cup {ArrayOf(l) : l \in DocumentParameterLists},
        qs \in {NoArrayValue} \cup {ArrayOf(l) : l \in DocumentQueueLists}}

ParseInputs == {[fn |-> "parseTemplate", doc |-> d] : d \in Documents}

InitTemplates ==
    /\ NoOperation
    /\ ClientConstructed
    /\ pc = "idle"
    /\ output = <<>>
    /\ \/ input \in ValidateInputs
       \/ input \in RenderInputs
       \/ input \in ParseInputs

NextTemplates ==
    \/ ValidateParameters
    \/ RenderTemplate
    \/ ParseTemplate

SpecTemplates == InitTemplates /\ [][NextTemplates]_vars

-----------------------------------------------------------------------------
(* Properties of the template functions.                                   *)

Validated == pc = "validated"
Parameters == input.template["parameters"]

\* V has no value for the name: no entry, or an entry that is undefined,
\* null or the empty string
MissingFrom(values, name) ==
    \/ name \notin DOMAIN values
    \/ values[name] \in {Undefined, Null, EmptyString}

\* the parameter is required, declares no default and is missing from V
RequiredAndMissing(param) ==
    /\ param.required
    /\ param.default = Undefined
    /\ MissingFrom(input.values, param.name)

ErrorFields == {output[i].field : i \in 1..Len(output)}

\* C17: validateParameters(T, V) contains an error keyed by the name of every
\* parameter that is required, has no declared default and is missing from V
\* (undefined, null or the empty string).
C17_Original ==
    Validated =>
        \A i \in 1..Len(Parameters) :
            RequiredAndMissing(Parameters[i]) => Parameters[i].name \in ErrorFields

Rendered == pc = "rendered"

\* the declared default of the parameter named name, undefined if none
DefaultOf(name) ==
    LET declared == {i \in 1..Len(Parameters) : Parameters[i].name = name}
    IN  IF declared = {} THEN Undefined
        ELSE Parameters[CHOOSE i \in declared : \A j \in declared : j <= i].default

\* what the token of the name stands for: the supplied value, else the
\* default, else nothing (undefined)
Supplied(name) == name \in DOMAIN input.values /\ input.values[name] # Undefined
Resolved(name) ==
    IF Supplied(name) THEN input.values[name] ELSE DefaultOf(name)

\* the text a field of the parts stands for
RECURSIVE ExpectedText(_)
ExpectedText(parts) ==
    IF parts = <<>> THEN <<>>
    ELSE (IF ~Head(parts).token THEN Head(parts).text
          ELSE IF Resolved(Head(parts).text) = Undefined THEN <<>>
          ELSE ToText(Resolved(Head(parts).text)))
         \o ExpectedText(Tail(parts))

\* the value the field of the parts resolves to according to the claim
ExpectedField(parts) ==
    IF Len(parts) = 1 /\ parts[1].token
    THEN IF Resolved(parts[1].text) = Undefined THEN EmptyString
         ELSE Resolved(parts[1].text)
    ELSE StringValue(ExpectedText(parts))

\* the tokens of the parts name declared parameters
TokensDeclared(parts) ==
    \A i \in 1..Len(parts) :
        parts[i].token => \E j \in 1..Len(Parameters) : Parameters[j].name = parts[i].text

\* C18: a field that is exactly one token resolves to the parameter's native
\* value, a field with tokens amid other text to the concatenation with the
\* values stringified, a token whose parameter has neither a supplied value
\* nor a default to the empty string; supplied values go before defaults.
C18_Original ==
    (Rendered /\ TokensDeclared(input.parts)) =>
        output.queues[1][<<"name">>] = ExpectedField(input.parts)

ParsedTemplate == pc = "template_parsed"

EmptyList(doc, key) ==
    key \in DOMAIN doc /\ doc[key].isArray /\ doc[key].items = <<>>

\* C19: parseTemplate fails for every document whose parameter list is empty
\* or whose queue list is empty.
C19_Original ==
    (ParsedTemplate /\ (\/ EmptyList(input.doc, "parameters")
                        \/ EmptyList(input.doc, "queues"))) =>
        ~output.ok

-----------------------------------------------------------------------------
(* The listing specification: getManagedSystems and getSystemResources on  *)
(* a vhost whose queues and exchanges carry both ownership keys, the       *)
(* system id alone, or none.                                               *)

\* getSystemResources: the exchanges whose tag is the system id
SystemExchanges(allExchanges, sid) ==
    SelectSeq(allExchanges, LAMBDA e : Arg(e, KeySystemId) = sid)

getSystemResources(qs, es, sid) ==
    [queues |-> SystemQueues(getQueues(qs), sid),
     exchanges |-> SystemExchanges(getExchanges(es), sid)]

\* getSystemResources(vhost, sid) is called after the listing
GetSystemResources(sid) ==
    /\ pc = "listed"
    /\ systemId' = sid
    /\ resources' = getSystemResources(brokerQueues, brokerExchanges, sid)
    /\ pc' = "resources"
    /\ UNCHANGED <<brokerVars, sysQueues, usedExchangeNames, deletedQueues,
                   deletedExchanges, existingSystems, exchangesToCheck,
                   currentExchanges, hasChanges, remaining, currentBindings, report,
                   rounds, failedDeletes, deletedWithBindings, idx, listed, config,
                   metadata, error, calls, failures, broker0, userParams,
                   clientVars, functionVars, call2>>

\* arguments that carry the system id without the template
IdOnlyArgs(tag) == (KeySystemId :> tag)

ListingQueueSets ==
    {q1 \cup q2 \cup q3 :
        q1 \in {{QueueRec(NameQ1, TRUE, a)} : a \in {TagArgs(SysA), IdOnlyArgs(SysA)}},
        q2 \in {{}} \cup {{QueueRec(NameQ2, TRUE, a)} :
                            a \in {TagArgs(SysA), IdOnlyArgs(SysA), TagArgs(SysB),
                                   EmptyArgs}},
        q3 \in {{}} \cup {{QueueRec(NameQ3, TRUE, a)} :
                            a \in {TagArgs(SysB), IdOnlyArgs(SysB)}}}

ListingExchangeSets ==
    {{ExchangeRec(NameDefault, TRUE, EmptyArgs)} \cup e1 \cup e2 :
        e1 \in {{}} \cup {{ExchangeRec(NameE1, TRUE, a)} :
                            a \in {TagArgs(SysA), TagArgs(SysB), EmptyArgs}},
        e2 \in {{}, {ExchangeRec(NameE2, TRUE, IdOnlyArgs(SysA))}}}

InitListing ==
    /\ brokerQueues \in ListingQueueSets
    /\ brokerExchanges \in ListingExchangeSets
    /\ brokerBindings = DefaultBindings(brokerQueues)
    /\ pc = "idle"
    /\ systemId = Undefined
    /\ sysQueues = <<>>
    /\ usedExchangeNames = <<>>
    /\ deletedQueues = <<>>
    /\ deletedExchanges = <<>>
    /\ existingSystems = {}
    /\ exchangesToCheck = <<>>
    /\ currentExchanges = <<>>
    /\ hasChanges = FALSE
    /\ remaining = <<>>
    /\ currentBindings = <<>>
    /\ idx = 1
    /\ report = <<>>
    /\ listed = <<>>
    /\ config = NoConfig
    /\ metadata = EmptyArgs
    /\ error = <<>>
    /\ calls = <<>>
    /\ rounds = 0
    /\ failures = 0
    /\ failedDeletes = {}
    /\ deletedWithBindings = {}
    /\ broker0 = [queues |-> brokerQueues, exchanges |-> brokerExchanges,
                  bindings |-> brokerBindings]
    /\ userParams = EmptyArgs
    /\ call2 = NoSecond
    /\ resources = NoResources
    /\ ClientConstructed
    /\ NoEvaluation

NextListing ==
    \/ ListManagedSystems
    \/ \E sid \in SystemIds : GetSystemResources(sid)

SpecListing == InitListing /\ [][NextListing]_vars

\* the entry of the listing for the system id
EntryOf(sid) == CHOOSE i \in 1..Len(listed) : listed[i].systemId = sid

\* C20: every listed system's queueCount is the number of queues tagged with
\* its id, the ones getSystemResources returns, its exchangeCount the number
\* of exchanges tagged with it, and every queue that carries a system id is
\* counted in a listed system.
C20_Original ==
    /\ (ListedDone \/ pc = "resources") =>
          /\ \A i \in 1..Len(listed) :
                /\ listed[i].queueCount =
                      Cardinality(Tagged(brokerQueues, listed[i].systemId))
                /\ listed[i].exchangeCount =
                      Cardinality(Tagged(brokerExchanges, listed[i].systemId))
          /\ \A q \in brokerQueues :
                Arg(q, KeySystemId) # Undefined => Arg(q, KeySystemId) \in ListedIds
    /\ pc = "resources" =>
          (systemId \in ListedIds =>
              listed[EntryOf(systemId)].queueCount = Len(resources.queues))

-----------------------------------------------------------------------------
(* deleteSystem: failures of deleteExchange inside the loop.               *)

Deleted == Range(deletedExchanges)
\* the candidates the loop does not skip
Candidates ==
    {exchangesToCheck[i].name : i \in 1..Len(exchangesToCheck)}
        \ {n \in NamesOf(brokerExchanges \cup broker0.exchanges) : isSystemExchange(n)}

\* C21 as stated: in the report of a deleteSystem, every exchange whose
\* deleteExchange failed inside the loop is absent from deletedExchanges and
\* present in remainingExchanges.
C21_Original ==
    pc = "done" =>
        \A n \in failedDeletes : n \notin Deleted /\ n \in ReportNames

\* C21: a deleteExchange that fails inside the loop does not end deleteSystem,
\* the loop goes on with the next candidate of the round, and in the report
\* the exchange is listed in remainingExchanges unless a later round deleted
\* it, in which case it is listed in deletedExchanges only; every candidate
\* is in one of the two lists.
C21_FailureKeepsCandidate ==
    /\ [](pc = "done" =>
            /\ \A n \in failedDeletes : (n \in Deleted) # (n \in ReportNames)
            /\ \A n \in Candidates : n \in Deleted \/ n \in ReportNames)
    /\ [][failedDeletes' # failedDeletes =>
            /\ pc' = pc
            /\ error' = error
            /\ idx' = idx + 1
            /\ currentExchanges' = currentExchanges]_vars

C21_Witness ==
    /\ pc = "done"
    /\ \E n \in failedDeletes : n \in ReportNames /\ n \notin Deleted
    /\ Deleted # {}

-----------------------------------------------------------------------------
(* deleteSystem: the entries of remainingExchanges.                        *)

\* the exchange of that name as deleteSystem found it
Exchange0(name) == CHOOSE e \in broker0.exchanges : e.name = name

\* C22: an entry of remainingExchanges has reason orphaned_exchange exactly
\* when the exchange carries an x-manage-system-id that differs from the
\* deleted system's id and that no queue carries once the system's queues are
\* deleted, and has_bindings otherwise; isManaged is true exactly when the
\* exchange carries an x-manage-system-id, and bindingCount is the number of
\* bindings whose source is the exchange when the report is built.
C22_Classification ==
    pc = "done" =>
        \A i \in 1..Len(report) :
            LET tag == Arg(Exchange0(report[i].name), KeySystemId)
            IN  /\ report[i].reason \in {"orphaned_exchange", "has_bindings"}
                /\ report[i].reason = "orphaned_exchange" <=>
                      /\ tag # Undefined
                      /\ tag # systemId
                      /\ Tagged(brokerQueues, tag) = {}
                /\ report[i].isManaged <=> tag # Undefined
                /\ report[i].bindingCount =
                      Cardinality({b \in brokerBindings : b.source = report[i].name})

C22_Witness ==
    /\ pc = "done"
    /\ \E i \in 1..Len(report) :
          /\ report[i].reason = "orphaned_exchange"
          /\ report[i].bindingCount >= 1
    /\ \E i \in 1..Len(report) :
          /\ report[i].reason = "has_bindings"
          /\ ~report[i].isManaged

C22_WitnessLivingCreator ==
    /\ pc = "done"
    /\ \E i \in 1..Len(report) :
          /\ report[i].reason = "has_bindings"
          /\ report[i].isManaged
          /\ report[i].createdBy # systemId

-----------------------------------------------------------------------------
(* createSystem: what a failure leaves behind.                             *)

\* the lookup createSystem is about to issue finds a resource that the spec
\* does not allow to reuse: a conflict or a validation mismatch
ConflictFound ==
    \/ /\ pc = "cs_ex_get"
       /\ \E existing \in brokerExchanges :
             /\ existing.name = config.exchanges[idx].name
             /\ ExistingOutcome(existing, config.exchanges[idx], "exchange") # <<>>
    \/ /\ pc = "cs_q_get"
       /\ \E existing \in brokerQueues :
             /\ existing.name = config.queues[idx].name
             /\ ExistingOutcome(existing, config.queues[idx], "queue") # <<>>

\* the names of the first n specs of the list
FirstNames(list, n) == {list[i].name : i \in 1..n}
FirstBindings(list, n) == {<<list[i].source, list[i].destination>> : i \in 1..n}

\* nothing listed at or after the spec createSystem failed at is created
NothingLaterCreated ==
    LET op == calls[Len(calls)].op
    IN  /\ op \in {"getExchange", "createExchange"} =>
              /\ NamesOf(CreatedExchanges) \subseteq FirstNames(config.exchanges, idx - 1)
              /\ CreatedQueues = {}
              /\ CreatedBindings = {}
        /\ op \in {"getQueue", "createQueue"} =>
              /\ NamesOf(CreatedQueues) \subseteq FirstNames(config.queues, idx - 1)
              /\ CreatedBindings = {}
        /\ op = "createBinding" =>
              {<<b.source, b.destination>> : b \in CreatedBindings}
                  \subseteq FirstBindings(config.bindings, idx - 1)

-----------------------------------------------------------------------------
(* A second createSystem call on the same client: the same steps as the    *)
(* first call's, on the locals held in call2. It is issued once the first  *)
(* call has been issued, and its steps interleave with the first call's at *)
(* every await; issued after the first call has ended, it is a re-run.     *)

\* an instant after Now
Later == <<"3">>

\* what the second call leaves alone
firstVars == <<pc, systemId, deleteLocals, idx, listed, config, metadata, error,
               calls, broker0, userParams, resources, clientVars, functionVars>>

SecondThrow(c, message) == [c EXCEPT !.error = message, !.pc = "failed"]
SecondGoto(c, next) == [c EXCEPT !.pc = next.pc, !.idx = next.idx]
SecondLogged(op, name) == [call2 EXCEPT !.calls = Append(@, Call(op, name))]

\* the request fails with a status other than 404
SecondGatewayFails(logged) ==
    /\ failures < MaxFailures
    /\ failures' = failures + 1
    /\ call2' = SecondThrow(logged, RequestFailedMsg(<<"5", "0", "0">>))

\* createSystem(cfg, templateName, templateVersion, userParams) is called a
\* second time, at the instant at
CS2_Start(cfg, templateName, templateVersion, params, at) ==
    /\ pc # "idle"
    /\ call2.pc = "idle"
    /\ LET sid == generateSystemId(
                      Merge(("templateName" :> templateName) @@ ("vhost" :> cfg.vhost),
                            params))
           next == AfterExchange(cfg, 0)
       IN  call2' = [pc |-> next.pc, idx |-> next.idx, config |-> cfg,
                     systemId |-> sid,
                     metadata |-> (KeyCreatedAt :> at)
                                  @@ generateManageMetadata(sid, templateName,
                                                            templateVersion),
                     error |-> <<>>, calls |-> <<>>,
                     issuedAt |-> pc,
                     broker0 |-> [queues |-> brokerQueues,
                                  exchanges |-> brokerExchanges,
                                  bindings |-> brokerBindings]]
    /\ UNCHANGED <<brokerVars, failures, firstVars>>

CS2_GetExchange ==
    /\ call2.pc = "cs_ex_get"
    /\ LET exchange == call2.config.exchanges[call2.idx]
           found == {e \in brokerExchanges : e.name = exchange.name}
           logged == SecondLogged("getExchange", exchange.name)
       IN  \/ SecondGatewayFails(logged)
           \/ /\ found = {}
              /\ call2' = SecondGoto(logged, [pc |-> "cs_ex_create", idx |-> call2.idx])
              /\ UNCHANGED failures
           \/ /\ \E existing \in found :
                    LET thrown == ExistingOutcome(existing, exchange, "exchange")
                    IN  call2' = IF thrown # <<>> THEN SecondThrow(logged, thrown)
                                 ELSE SecondGoto(logged,
                                                 AfterExchange(call2.config, call2.idx))
              /\ UNCHANGED failures
    /\ UNCHANGED <<brokerVars, firstVars>>

CS2_CreateExchange ==
    /\ call2.pc = "cs_ex_create"
    /\ LET exchange == call2.config.exchanges[call2.idx]
           rec == ExchangeRec(exchange.name, exchange.durable,
                              Merge(exchange.arguments, call2.metadata))
           logged == SecondLogged("createExchange", exchange.name)
       IN  \/ /\ SecondGatewayFails(logged)
              /\ UNCHANGED brokerVars
           \/ /\ PutAccepted(brokerExchanges, rec)
              /\ brokerExchanges' = brokerExchanges \cup {rec}
              /\ call2' = SecondGoto(logged, AfterExchange(call2.config, call2.idx))
              /\ UNCHANGED <<brokerQueues, brokerBindings, failures>>
           \/ /\ ~PutAccepted(brokerExchanges, rec)
              /\ call2' = SecondThrow(logged, RequestFailedMsg(<<"4", "0", "0">>))
              /\ UNCHANGED <<brokerVars, failures>>
    /\ UNCHANGED firstVars

CS2_GetQueue ==
    /\ call2.pc = "cs_q_get"
    /\ LET queue == call2.config.queues[call2.idx]
           found == {q \in brokerQueues : q.name = queue.name}
           logged == SecondLogged("getQueue", queue.name)
           create == SecondGoto(logged, [pc |-> "cs_q_create", idx |-> call2.idx])
       IN  \/ /\ failures < MaxFailures
              /\ failures' = failures + 1
              /\ LET thrown == RequestFailedMsg(<<"5", "0", "0">>)
                 IN  call2' = IF IsNotFound(thrown) THEN create
                              ELSE SecondThrow(logged, thrown)
           \/ /\ found = {}
              /\ call2' = IF IsNotFound(NotFoundMsg) THEN create
                          ELSE SecondThrow(logged, NotFoundMsg)
              /\ UNCHANGED failures
           \/ /\ \E existing \in found :
                    LET thrown == ExistingOutcome(existing, queue, "queue")
                    IN  call2' = IF thrown = <<>>
                                 THEN SecondGoto(logged,
                                                 AfterQueue(call2.config, call2.idx))
                                 ELSE IF IsNotFound(thrown) THEN create
                                 ELSE SecondThrow(logged, thrown)
              /\ UNCHANGED failures
    /\ UNCHANGED <<brokerVars, firstVars>>

CS2_CreateQueue ==
    /\ call2.pc = "cs_q_create"
    /\ LET queue == call2.config.queues[call2.idx]
           rec == QueueRec(queue.name, queue.durable,
                           Merge(queue.arguments, call2.metadata))
           logged == SecondLogged("createQueue", queue.name)
       IN  \/ /\ SecondGatewayFails(logged)
              /\ UNCHANGED brokerVars
           \/ /\ PutAccepted(brokerQueues, rec)
              /\ brokerQueues' = brokerQueues \cup {rec}
              /\ brokerBindings' = brokerBindings \cup DefaultBindings({rec})
              /\ call2' = SecondGoto(logged, AfterQueue(call2.config, call2.idx))
              /\ UNCHANGED <<brokerExchanges, failures>>
           \/ /\ ~PutAccepted(brokerQueues, rec)
              /\ call2' = SecondThrow(logged, RequestFailedMsg(<<"4", "0", "0">>))
              /\ UNCHANGED <<brokerVars, failures>>
    /\ UNCHANGED firstVars

CS2_CreateBinding ==
    /\ call2.pc = "cs_bind"
    /\ LET binding == call2.config.bindings[call2.idx]
           rec == BindingRec(binding.source, binding.destination,
                             IF binding.destination_type = "undefined" THEN "queue"
                             ELSE binding.destination_type,
                             Merge(binding.arguments, call2.metadata))
           logged == SecondLogged("createBinding",
                                  <<binding.source, binding.destination>>)
       IN  \/ /\ SecondGatewayFails(logged)
              /\ UNCHANGED brokerVars
           \/ /\ BindingAccepted(rec)
              /\ brokerBindings' = brokerBindings \cup {rec}
              /\ call2' = SecondGoto(logged, AfterBinding(call2.config, call2.idx))
              /\ UNCHANGED <<brokerQueues, brokerExchanges, failures>>
           \/ /\ ~BindingAccepted(rec)
              /\ call2' = SecondThrow(logged, NotFoundMsg)
              /\ UNCHANGED <<brokerVars, failures>>
    /\ UNCHANGED firstVars

-----------------------------------------------------------------------------
(* The two-call specification: a broker on which Q1, Q404 and E1 exist or  *)
(* not, one createSystem call, and a second call with the same arguments,  *)
(* beside the first or after it.                                           *)

Reuse == [reuseIfExists |-> TRUE, validateIfExists |-> <<>>]

TwoCallConfigs ==
    {[vhost |-> Vhost, exchanges |-> el, queues |-> ql, bindings |-> bl] :
        el \in {<<>>} \cup {<<ResourceSpec(NameE1, EmptyArgs, p)>> : p \in {NoReuse, Reuse}},
        ql \in {<<ResourceSpec(n, EmptyArgs, p)>> :
                  n \in {NameQ1, NameQ404}, p \in {NoReuse, Reuse}},
        bl \in {<<>>} \cup {<<BindingSpec(NameE1, n, "undefined")>> :
                              n \in {NameQ1, NameQ404}}}

InitTwoCalls == InitProvision

NextTwoCalls ==
    \/ /\ pc = "idle"
       /\ \E cfg \in TwoCallConfigs :
             /\ \A i \in 1..Len(cfg.bindings) :
                   cfg.bindings[i].destination = cfg.queues[1].name
             /\ CS_Start(cfg, TemplateName, TemplateVersion, EmptyArgs)
    \/ CS_GetExchange
    \/ CS_CreateExchange
    \/ CS_GetQueue
    \/ CS_CreateQueue
    \/ CS_CreateBinding
    \/ \E at \in {Now, Later} :
          CS2_Start(config, TemplateName, TemplateVersion, userParams, at)
    \/ CS2_GetExchange
    \/ CS2_CreateExchange
    \/ CS2_GetQueue
    \/ CS2_CreateQueue
    \/ CS2_CreateBinding

SpecTwoCalls == InitTwoCalls /\ [][NextTwoCalls]_vars

-----------------------------------------------------------------------------
(* createSystem run again with the same config after a successful run.     *)

\* the second call was issued when the first had returned
Rerun == call2.issuedAt = "done"
SecondEnded == call2.pc \in {"done", "failed"}
SecondCallsOf(op) == SelectSeq(call2.calls, LAMBDA c : c.op = op)
SecondWrites ==
    SelectSeq(call2.calls,
              LAMBDA c : c.op \in {"createExchange", "createQueue", "createBinding"})

\* every exchange and queue spec is reused as it is
AllReused(cfg) ==
    /\ \A i \in 1..Len(cfg.exchanges) :
          cfg.exchanges[i].reuseIfExists /\ cfg.exchanges[i].validateIfExists = <<>>
    /\ \A i \in 1..Len(cfg.queues) :
          cfg.queues[i].reuseIfExists /\ cfg.queues[i].validateIfExists = <<>>

\* the first resource createSystem looks up
FirstListed(cfg) ==
    IF Len(cfg.exchanges) > 0 THEN cfg.exchanges[1] ELSE cfg.queues[1]

\* C24: when createSystem is run again with the same config after a
\* successful run, and every exchange and queue spec has reuseIfExists=true
\* and no validateIfExists, the second run issues no createExchange and no
\* createQueue, leaves the queues and exchanges of the broker as they are,
\* fails only when the gateway fails and otherwise ends having issued the
\* bindings of the config again; when the first listed resource has
\* reuseIfExists=false, the second run fails at that resource without any
\* write.
C24_Original ==
    /\ (Rerun /\ AllReused(call2.config)) =>
          /\ SecondCallsOf("createExchange") = <<>>
          /\ SecondCallsOf("createQueue") = <<>>
          /\ brokerQueues = call2.broker0.queues
          /\ brokerExchanges = call2.broker0.exchanges
          /\ call2.pc = "failed" => call2.error = RequestFailedMsg(<<"5", "0", "0">>)
          /\ call2.pc = "done" =>
                [i \in 1..Len(SecondWrites) |-> SecondWrites[i].name]
                    = BindingNames(call2.config.bindings)
    /\ (Rerun /\ ~FirstListed(call2.config).reuseIfExists) =>
          /\ SecondWrites = <<>>
          /\ call2.pc # "done"
          /\ Len(call2.calls) <= 1
          /\ brokerVars = <<call2.broker0.queues, call2.broker0.exchanges,
                            call2.broker0.bindings>>

-----------------------------------------------------------------------------
(* forceDeleteExchanges: one action per deleteExchange of the loop.        *)

\* where forceDeleteExchanges goes on after the name i (0: from the start)
AfterName(names, i) ==
    IF i < Len(names) THEN [pc |-> "fd_loop", idx |-> i + 1]
    ELSE [pc |-> "done", idx |-> i + 1]

\* a catch that throws the error of the deletion again
ForceDeleteRethrown(next) ==
    Throw(RequestFailedMsg(<<"5", "0", "0">>))

\* catch (error) { console.warn(...) }: the loop goes on
ForceDeleteCaught(next) ==
    Goto(next)

\* forceDeleteExchanges(vhost, names) is called
FD_Start(names) ==
    /\ pc = "idle"
    /\ input' = names
    /\ Goto(AfterName(names, 0))
    /\ UNCHANGED <<brokerVars, deleteVars, listed, config, metadata, calls, failures,
                   broker0, userParams, resources, clientVars, output, call2>>

\* one pass of the loop: deleteExchange of the name idx, which the broker
\* refuses for an exchange it does not have or protects, or the gateway fails
FD_Delete ==
    /\ pc = "fd_loop"
    /\ LET name == input[idx]
       IN  /\ calls' = Append(calls, Call("deleteExchange", name))
           /\ \/ /\ OnBroker(brokerExchanges, name)
                 /\ ~BrokerProtected(name)
                 /\ BrokerDeleteExchange(name)
                 /\ Goto(AfterName(input, idx))
                 /\ UNCHANGED failures
              \/ /\ ~OnBroker(brokerExchanges, name) \/ BrokerProtected(name)
                 /\ ForceDeleteCaught(AfterName(input, idx))
                 /\ UNCHANGED <<brokerVars, failures>>
              \/ /\ failures < MaxFailures
                 /\ failures' = failures + 1
                 /\ ForceDeleteCaught(AfterName(input, idx))
                 /\ UNCHANGED brokerVars
    /\ UNCHANGED <<deleteVars, listed, config, metadata, broker0, userParams,
                   resources, clientVars, functionVars, call2>>

-----------------------------------------------------------------------------
(* The forced-deletion specification: a broker with the queue Q1, the two   *)
(* protected exchanges, the untagged exchanges E1 and E2 and up to         *)
(* MaxBindings bindings, on which one forceDeleteExchanges runs.           *)

\* the names of exchanges the broker has, protects, or does not have
ForceDeleteNames == {NameE1, NameE2, NameAmqTopic, NameQ1}

NameLists == UNION {[1..k -> ForceDeleteNames] : k \in 0..MaxNames}

InitForceDelete ==
    /\ InitTeardown
    /\ Cardinality(brokerQueues) = 1
    /\ \A e \in brokerExchanges : Arg(e, KeySystemId) = Undefined

NextForceDelete ==
    \/ \E names \in NameLists : FD_Start(names)
    \/ FD_Delete

SpecForceDelete == InitForceDelete /\ [][NextForceDelete]_vars

\* C25: forceDeleteExchanges attempts deleteExchange once for every name, in
\* the order of the names, whatever came of the earlier attempts, and ends
\* without an error, also when deletions fail.
C25_EveryNameAttempted ==
    /\ pc # "failed"
    /\ error = <<>>
    /\ pc \in {"fd_loop", "done"} =>
          /\ calls = [i \in 1..(idx - 1) |-> Call("deleteExchange", input[i])]
          /\ idx <= Len(input) + 1
          /\ pc = "done" <=> idx = Len(input) + 1

\* a call whose first deletion the broker refuses, whose second succeeds and
\* whose third fails at the gateway
C25_Witness ==
    /\ pc = "done"
    /\ Len(input) = 3
    /\ OnBroker(broker0.exchanges, input[1]) /\ OnBroker(brokerExchanges, input[1])
    /\ OnBroker(broker0.exchanges, input[2]) /\ ~OnBroker(brokerExchanges, input[2])
    /\ failures = 1
    /\ OnBroker(brokerExchanges, input[3]) /\ ~BrokerProtected(input[3])

-----------------------------------------------------------------------------
(* deleteSystem: the exchanges of the deleted system, and the candidates.  *)

\* C26: after deleteSystem(vhost, S) has returned, every exchange that was
\* tagged x-manage-system-id = S is deleted from the broker or listed in
\* remainingExchanges, also when it had no binding to a queue of S.
C26_Original ==
    pc = "done" =>
        \A e \in Tagged(broker0.exchanges, systemId) :
            ~OnBroker(brokerExchanges, e.name) \/ e.name \in ReportNames

\* The shadowed-name specification: a broker with the queue Q1 of sysA, at
\* most one more queue, the two protected exchanges, the exchange E1 and an
\* exchange that has the name of the queue Q1 (exchanges and queues have
\* separate names on the broker), with up to MaxBindings bindings to queues
\* and to exchanges, on which one deleteSystem or one getManagedSystems runs.
ShadowQueueSets ==
    {{QueueRec(NameQ1, TRUE, TagArgs(SysA))} \cup q2 :
        q2 \in {{}} \cup {{QueueRec(NameQ2, TRUE, TagArgs(t))} : t \in {SysA, SysB}}}

ShadowExchangeSets ==
    {{ExchangeRec(NameDefault, TRUE, EmptyArgs),
      ExchangeRec(NameAmqTopic, TRUE, EmptyArgs),
      ExchangeRec(NameE1, TRUE, TagArgs(t1)),
      ExchangeRec(NameQ1, TRUE, TagArgs(t2))} : t1 \in Tags, t2 \in Tags}

ShadowBindings ==
    {BindingRec(NameE1, NameQ1, t, EmptyArgs) : t \in {"queue", "exchange"}}
    \cup {BindingRec(NameE1, NameQ2, "queue", EmptyArgs),
          BindingRec(NameQ1, NameQ1, "queue", EmptyArgs),
          BindingRec(NameQ1, NameE1, "exchange", EmptyArgs),
          BindingRec(NameAmqTopic, NameQ1, "exchange", EmptyArgs)}

ShadowBindingSets(qs) ==
    {DefaultBindings(qs) \cup bs :
        bs \in {s \in SUBSET ShadowBindings :
                  /\ Cardinality(s) <= MaxBindings
                  /\ \A b \in s : b.destination_type = "queue"
                        => \E q \in qs : q.name = b.destination}}

InitShadow ==
    /\ brokerQueues \in ShadowQueueSets
    /\ brokerExchanges \in ShadowExchangeSets
    /\ brokerBindings \in ShadowBindingSets(brokerQueues)
    /\ broker0 = [queues |-> brokerQueues, exchanges |-> brokerExchanges,
                  bindings |-> brokerBindings]
    /\ pc = "idle"
    /\ idx = 1
    /\ failures = 0
    /\ sysQueues = <<>>
    /\ usedExchangeNames = <<>>
    /\ deletedQueues = <<>>
    /\ deletedExchanges = <<>>
    /\ existingSystems = {}
    /\ exchangesToCheck = <<>>
    /\ currentExchanges = <<>>
    /\ hasChanges = FALSE
    /\ remaining = <<>>
    /\ currentBindings = <<>>
    /\ report = <<>>
    /\ rounds = 0
    /\ failedDeletes = {}
    /\ deletedWithBindings = {}
    /\ systemId = Undefined
    /\ listed = <<>>
    /\ config = NoConfig
    /\ metadata = EmptyArgs
    /\ error = <<>>
    /\ calls = <<>>
    /\ userParams = EmptyArgs
    /\ call2 = NoSecond
    /\ resources = NoResources
    /\ ClientConstructed
    /\ NoEvaluation

NextShadow ==
    \/ \E sid \in SystemIds : DS_Start(sid)
    \/ DS_Fetch
    \/ DS_DeleteQueue
    \/ DS_Refetch
    \/ DS_RoundStart
    \/ DS_Exchange
    \/ DS_RoundEnd
    \/ DS_Report
    \/ DS_ReadFails
    \/ ListManagedSystems

SpecShadow == InitShadow /\ [][NextShadow]_vars

\* the exchanges that were, when deleteSystem started, the source of a
\* binding whose destination is a queue of the deleted system
BoundToSystemQueue ==
    {b.source : b \in {c \in broker0.bindings :
                          /\ c.destination_type = "queue"
                          /\ c.destination \in NamesOf(Tagged(broker0.queues, systemId))}}

\* C27: deleteSystem deletes or reports only exchanges that were, before the
\* queues were deleted, the source of a binding whose destination is a queue
\* of the deleted system; a binding to an exchange that has the name of one
\* of the system's queues does not make its source a candidate.
C27_Original ==
    pc = "done" => (Deleted \cup ReportNames) \subseteq BoundToSystemQueue

\* C30: in every report of deleteSystem, deletedExchanges and the names of
\* remainingExchanges are disjoint and free of duplicates, and together they
\* are the non-protected exchanges that were bound to a queue of the system
\* before the deletion and were on the broker after the queues were deleted.
C30_Original ==
    pc = "done" =>
        /\ Deleted \cap ReportNames = {}
        /\ Cardinality(Deleted) = Len(deletedExchanges)
        /\ Cardinality(ReportNames) = Len(report)
        /\ Deleted \cup ReportNames =
              {n \in BoundToSystemQueue :
                  ~BrokerProtected(n) /\ OnBroker(broker0.exchanges, n)}

-----------------------------------------------------------------------------
(* getManagedSystems after createSystem.                                   *)

\* createSystem has returned and getManagedSystems has run after it
ListedAfterCreate == pc = "done_listed" /\ config # NoConfig

\* C28: after a createSystem that succeeded, getManagedSystems lists the
\* call's system id with queueCount the number of queues the call created
\* plus the queues that carried the id before, and does not list it when
\* there is no such queue; the queues and exchanges the call reused are on
\* the broker as they were, with the tags they had, and are not counted for
\* the call's system.
C28_ListedAfterCreate ==
    ListedAfterCreate =>
        LET queueCount == Cardinality(CreatedQueues)
                          + Cardinality(Tagged(broker0.queues, systemId))
            exchangeCount == Cardinality(CreatedExchanges)
                             + Cardinality(Tagged(broker0.exchanges, systemId))
        IN  /\ broker0.queues \subseteq brokerQueues
            /\ broker0.exchanges \subseteq brokerExchanges
            /\ queueCount = 0 => systemId \notin ListedIds
            /\ queueCount > 0 =>
                  /\ systemId \in ListedIds
                  /\ listed[EntryOf(systemId)].queueCount = queueCount
                  /\ listed[EntryOf(systemId)].exchangeCount = exchangeCount

\* a call that created two queues and reused an exchange of another system
C28_Witness ==
    /\ ListedAfterCreate
    /\ Cardinality(CreatedQueues) = 2
    /\ \E e \in broker0.exchanges : e.name = NameE1
    /\ listed[EntryOf(systemId)].queueCount = 2

\* a call that created a queue beside a queue that carried its id before
C28_WitnessPrior ==
    /\ ListedAfterCreate
    /\ Cardinality(CreatedQueues) = 1
    /\ Cardinality(Tagged(broker0.queues, systemId)) = 1
    /\ listed[EntryOf(systemId)].queueCount = 2

\* a call that reused its only queue and is not listed
C28_WitnessAllReused ==
    /\ ListedAfterCreate
    /\ CreatedQueues = {}
    /\ systemId \notin ListedIds

-----------------------------------------------------------------------------
(* Two createSystem calls beside each other.                               *)

\* the second call was issued while the first was running
Concurrent == call2.issuedAt \notin {"idle", "done", "failed"}
BothEnded == pc \in {"done", "failed"} /\ SecondEnded
SecondCalled(op, name) ==
    \E i \in 1..Len(call2.calls) : call2.calls[i] = Call(op, name)

\* one of the two calls failed with the conflict on the resource
ConflictRaised(resourceType, name) ==
    \/ pc = "failed" /\ error = ExistsMsg(resourceType, name)
    \/ call2.pc = "failed" /\ call2.error = ExistsMsg(resourceType, name)

\* C29: when two createSystem calls whose steps interleave name the same
\* exchange or queue with reuseIfExists=false, and both have looked it up,
\* one of them fails with the already-exists conflict on it and the two calls
\* do not both issue its creation.
C29_Original ==
    (Concurrent /\ BothEnded /\ failures = 0) =>
        /\ \A i \in 1..Len(config.exchanges) :
              LET exchange == config.exchanges[i]
              IN  (/\ ~exchange.reuseIfExists
                   /\ Called("getExchange", exchange.name)
                   /\ SecondCalled("getExchange", exchange.name)) =>
                      /\ ConflictRaised("exchange", exchange.name)
                      /\ ~(/\ Called("createExchange", exchange.name)
                           /\ SecondCalled("createExchange", exchange.name))
        /\ \A i \in 1..Len(config.queues) :
              LET queue == config.queues[i]
              IN  (/\ ~queue.reuseIfExists
                   /\ Called("getQueue", queue.name)
                   /\ SecondCalled("getQueue", queue.name)) =>
                      /\ ConflictRaised("queue", queue.name)
                      /\ ~(/\ Called("createQueue", queue.name)
                           /\ SecondCalled("createQueue", queue.name))

====
